---- MODULE Spec2Model ----
(***************************************************************************)
(* Model of the Ollama-GPT proxy (src/OllamaGPT.go): the truncation        *)
(* policy circumsizeM and the request handler hChat.                       *)
(*                                                                         *)
(* A message content is read by the handler only through len(), through    *)
(* strings.Contains(content, "### Task:") and by copying it, so a content   *)
(* is the record [len, marker]: its byte length and whether it contains    *)
(* the marker string.                                                      *)
(***************************************************************************)
EXTENDS Integers, Sequences, FiniteSets, TLC

VARIABLES
    tMessages,        \* circumsizeM: argument messages
    tMaxLength,       \* circumsizeM: argument maxLength
    tResult,          \* circumsizeM: returned slice
    tAgain,           \* circumsizeM: returned slice of a call on tResult
    tpc,              \* "call" before circumsizeM ran, "returned" after,
                      \* "again" after the call on its own result
    wReply,           \* older revision of hChat: reply, as decoded
    wWords,           \* older revision of hChat: words, what SplitW returned
    wI,               \* older revision of hChat: index of the frame loop
    wWritten,         \* older revision of hChat: the frames written
    wpc,              \* "decoded", "loop" inside the frame loop, "returned"
    streamOverride,   \* global *bool: "nil", "true" or "false"
    dementiaOverride, \* global *bool: "nil", "true" or "false"
    pc,               \* position of the process / of the handler
    httpReq,          \* the inbound HTTP request r (path and body)
    req,              \* hChat: req (ollamaReq) after normalization
    route,            \* hChat: endpoint, reqBody, isChatStream, isV2
    posts,            \* upstream calls made: sequence of [endpoint, body]
    resp,             \* hChat: upstream status and body read
    reply,            \* hChat: scrubbed reply (bytes) being streamed
    i,                \* hChat: index of the chunk loop
    status,           \* HTTP status sent to the client, 0 while none is sent
    written,          \* what was written to the client, in order
    conn,             \* the client's connection: "open" or "closed"
    lost,             \* what was passed to w.Write and failed to be written
    typed,            \* the lines the console user entered at the two prompts
    streamReader,     \* the goroutine of the streaming prompt: "unstarted",
                      \* "blocked" in fmt.Scanln or "returned"
    input,            \* main: var input, which that goroutine scans into
    warmed,           \* whether preWarmConnection has made its call
    parked,           \* the locals of the other handler goroutine while the
                      \* variables above hold those of the one taking a step
    served            \* the request the server answered last and its response,
                      \* as a sequence of one element; empty before the first

truncVars == <<tMessages, tMaxLength, tResult, tAgain, tpc>>
wordVars == <<wReply, wWords, wI, wWritten, wpc>>
toggles == <<streamOverride, dementiaOverride>>
handlerVars == <<pc, httpReq, req, route, posts, resp, reply, i, status, written, conn, lost>>
background == <<typed, streamReader, input, warmed>>
vars == <<truncVars, wordVars, toggles, background, handlerVars, parked, served>>

----------------------------------------------------------------------------
(* Bounds of the truncation specification *)
MaxMsgs == 3
MaxLen == 3
MaxBudget == 4

Roles == {"system", "user", "assistant"}

\* msg (src/OllamaGPT.go:55): Role and Content
Content(n, mk) == [len |-> n, marker |-> mk]
Msg(role, c) == [Role |-> role, Content |-> c]

\* len(m.Content)
ContentLen(m) == m.Content.len

\* totalLength += len(m.Content) over a slice
RECURSIVE TotalLength(_)
TotalLength(messages) ==
    IF messages = <<>> THEN 0
    ELSE ContentLen(Head(messages)) + TotalLength(Tail(messages))

IsSystem(m) == m.Role = "system"
NotSystem(m) == m.Role # "system"

\* the loop of circumsizeM that collects systemMessages
SystemMessages(messages) == SelectSeq(messages, IsSystem)

\* mutant: the backward loop does not skip the system messages, so they are
\* kept by the loop and prepended as well
RECURSIVE KeepLoop_NoSkip(_, _, _, _, _)
KeepLoop_NoSkip(messages, maxLength, k, circumsized, currentLength) ==
    IF k = 0 THEN circumsized
    ELSE IF currentLength + ContentLen(messages[k]) <= maxLength
         THEN KeepLoop_NoSkip(messages, maxLength, k - 1,
                              <<messages[k]>> \o circumsized,
                              currentLength + ContentLen(messages[k]))
    ELSE circumsized

\* mutant: a message that does not fit is skipped (continue) instead of
\* ending the loop (break), so older messages that fit are still kept
RECURSIVE KeepLoop_SkipOverflow(_, _, _, _, _)
KeepLoop_SkipOverflow(messages, maxLength, k, circumsized, currentLength) ==
    IF k = 0 THEN circumsized
    ELSE IF messages[k].Role = "system"
         THEN KeepLoop_SkipOverflow(messages, maxLength, k - 1, circumsized,
                                    currentLength)
    ELSE IF currentLength + ContentLen(messages[k]) <= maxLength
         THEN KeepLoop_SkipOverflow(messages, maxLength, k - 1,
                                    <<messages[k]>> \o circumsized,
                                    currentLength + ContentLen(messages[k]))
    ELSE KeepLoop_SkipOverflow(messages, maxLength, k - 1, circumsized,
                               currentLength)

\* the backward loop of circumsizeM: k runs from len(messages) down to 1,
\* system messages are skipped, a fitting message is prepended, the first
\* message that does not fit ends the loop
RECURSIVE KeepLoop(_, _, _, _, _)
KeepLoop(messages, maxLength, k, circumsized, currentLength) ==
    IF k = 0 THEN circumsized
    ELSE IF messages[k].Role = "system"
         THEN KeepLoop(messages, maxLength, k - 1, circumsized, currentLength)
    ELSE IF currentLength + ContentLen(messages[k]) <= maxLength
         THEN KeepLoop(messages, maxLength, k - 1,
                       <<messages[k]>> \o circumsized,
                       currentLength + ContentLen(messages[k]))
    ELSE circumsized

\* mutant: the early return for a sequence within the budget is missing, the
\* system messages are always moved to the front
circumsizeM_AlwaysReorder(messages, maxLength) ==
    IF Len(messages) = 0 THEN messages
    ELSE SystemMessages(messages)
            \o KeepLoop(messages, maxLength, Len(messages), <<>>, 0)

\* mutant: the result is the kept messages only, the system messages are lost
circumsizeM_DropSystem(messages, maxLength) ==
    IF Len(messages) = 0 THEN messages
    ELSE IF TotalLength(messages) <= maxLength THEN messages
    ELSE KeepLoop(messages, maxLength, Len(messages), <<>>, 0)

circumsizeM(messages, maxLength) ==
    IF Len(messages) = 0 THEN messages
    ELSE IF TotalLength(messages) <= maxLength THEN messages
    ELSE SystemMessages(messages)
            \o KeepLoop(messages, maxLength, Len(messages), <<>>, 0)

----------------------------------------------------------------------------
(* Texts.  A text sent to the client is a sequence of characters.  The     *)
(* characters of an upstream reply are drawn from the classes the scrub     *)
(* distinguishes; a fixed advisory string of the source is one symbol.      *)

\* printable ASCII (0x20-0x7E), 1 byte each
Printable == {"a", "b"}
\* characters >= 0x80: 2 bytes each in UTF-8, a lead and a continuation byte
Wide == {"U00E9"}
\* "LF" is U+000A, "TAB" is 0x09, "CR" stands for 0x00-0x1F others, "DEL" 0x7F
Runes == Printable \cup Wide \cup {"LF", "TAB", "CR", "DEL"}

\* U+FFFD, what the JSON encoder writes for a byte that is no valid UTF-8
RuneError == "FFFD"

\* the UTF-8 bytes of one character
Utf8(c) ==
    IF c \in Wide THEN <<[of |-> c, part |-> 1], [of |-> c, part |-> 2]>>
    ELSE <<[of |-> c, part |-> 1]>>

\* string(runes): the bytes of a Go string
RECURSIVE Bytes(_)
Bytes(runes) ==
    IF runes = <<>> THEN <<>> ELSE Utf8(Head(runes)) \o Bytes(Tail(runes))

\* json.Marshal of a Go string followed by the client's decoding: valid
\* characters are kept, every byte that is not part of a valid character
\* becomes U+FFFD (the encoder of segmentio/encoding/json, like the one of
\* encoding/json, writes \ufffd for it)
RECURSIVE JsonString(_)
JsonString(bytes) ==
    IF bytes = <<>> THEN <<>>
    ELSE LET b == Head(bytes) IN
         IF b.part = 1 /\ b.of \notin Wide
         THEN <<b.of>> \o JsonString(Tail(bytes))
         ELSE IF /\ b.part = 1
                 /\ Len(bytes) >= 2
                 /\ bytes[2] = [of |-> b.of, part |-> 2]
         THEN <<b.of>> \o JsonString(Tail(Tail(bytes)))
         ELSE <<RuneError>> \o JsonString(Tail(bytes))

\* strings.ReplaceAll(reply, "\n", "")
RemoveLF(runes) == SelectSeq(runes, LAMBDA c : c # "LF")

\* (r >= 0x20 && r <= 0x7E) || r == 0x09 || (r >= 0x80)
Retained(c) == c \in Printable \/ c = "TAB" \/ c \in Wide

\* the scrub of the streaming branch
Scrub(runes) == SelectSeq(RemoveLF(runes), Retained)

\* the fixed advisory strings of the source
Advisory(text) == <<text>>

BlockedChatRoute(isGenerateRequest) ==
    IF isGenerateRequest
    THEN Advisory("Request blocked due to unnecessary api spam  (trying to predict next messages/chatname)")
    ELSE Advisory("Request blocked due to unnecessary api spam (trying to predict next messages/chatname)")
BlockedDefaultRoute ==
    Advisory("Request blocked due to unnecessary api spam (trying to predict next messages/chatname)")
BlockedMediaRoute(isGenerateRequest) ==
    IF isGenerateRequest
    THEN Advisory("Request blocked due to unnecessary api spam")
    ELSE Advisory("Request blocked due to unnessary api spam")
TooLong8000 ==
    Advisory("prompt too long please keep it under 8000 characters (or simply enable dementia mode next time on runtime)")
TooLong2000 ==
    Advisory("prompt too long please keep it under 2000 characters (or simply enable dementia mode next time on runtime)")
TooLong1000 ==
    Advisory("please keep the text under 1000 characters (btw using image generation in chat mode is not smart)")
TooLong500 ==
    Advisory("please keep the text under 500 characters (btw using tts in chat is not smart)")
UpstreamBlocked ==
    Advisory("Response was blocked please try again in a minute...")
RateLimited ==
    Advisory("Too many requests please wait a min... (contact atticus if you think higher request limits should be set)")

SpamTexts == {BlockedChatRoute(TRUE), BlockedChatRoute(FALSE), BlockedDefaultRoute,
              BlockedMediaRoute(TRUE), BlockedMediaRoute(FALSE)}
TooLongTexts == {TooLong8000, TooLong2000, TooLong1000, TooLong500}

----------------------------------------------------------------------------
(* Model names.  A name is a sequence of parts: the base and its tags,     *)
(* "gpt-4o:latest" is <<"gpt-4o", ":latest">>.                             *)

\* strings.HasSuffix(model, ":latest")
HasLatestSuffix(model) == Len(model) > 0 /\ model[Len(model)] = ":latest"

\* mutant: every trailing ":latest" is trimmed, not only one
RECURSIVE BaseModel_TrimAll(_)
BaseModel_TrimAll(model) ==
    IF Len(model) > 0 /\ model[Len(model)] = ":latest"
    THEN BaseModel_TrimAll(SubSeq(model, 1, Len(model) - 1))
    ELSE model

\* baseModel: model with one trailing ":latest" trimmed
BaseModel(model) ==
    IF HasLatestSuffix(model) THEN SubSeq(model, 1, Len(model) - 1) ELSE model

V2Models == {<<"gpt-4o">>, <<"gpt-4o-mini">>, <<"gpt-4.1-nano">>,
             <<"gpt-4.1-mini">>, <<"gpt-4.1">>}

\* the case of switch baseModel that is taken
RouteOf(model) ==
    LET baseModel == BaseModel(model) IN
    IF baseModel \in V2Models THEN "v2"
    ELSE IF baseModel = <<"dall-e-3">> THEN "dall-e-3"
    ELSE IF baseModel = <<"base64">> THEN "base64"
    ELSE IF baseModel = <<"tts">> THEN "tts"
    ELSE "default"

EndpointV1 == "https://pfuner.xyz/v1/chat/completions"
EndpointV2 == "https://pfuner.xyz/v2/chat/completions"
EndpointV3 == "https://pfuner.xyz/v3/images/generations"
EndpointV4 == "https://pfuner.xyz/v4/images/generations"
EndpointV5 == "https://pfuner.xyz/v5/audio/generations"

\* program constants: the limits of the length guards and the chunk size
LimitV2 == 8000
LimitDefault == 2000
LimitImage == 1000
LimitTTS == 500
chunkSize == 10
StatusOK == 200
StatusBadRequest == 400
StatusMethodNotAllowed == 405
StatusInternalServerError == 500
StatusTooManyRequests == 429

----------------------------------------------------------------------------
(* Upstream response bodies.  The handler tests a body for its prefix, for *)
(* the rate-limit phrase, and decodes it as JSON into the struct of the    *)
(* route.  A body is [prefix, phrase, json]: prefix is "<html>", "doctype" *)
(* (the prefix {"reply":"<!DOCTYPE html>\) or "other"; json is what the    *)
(* body is as a JSON document: not JSON at all, or an object with one      *)
(* field.                                                                  *)
NotJSON == [kind |-> "invalid", field |-> "", type |-> "", text |-> <<>>, n |-> 0]
\* {"<field>": "<text>"}
ObjString(field, text) ==
    [kind |-> "object", field |-> field, type |-> "string", text |-> text, n |-> 0]
\* {"<field>": 7}
ObjNumber(field) ==
    [kind |-> "object", field |-> field, type |-> "number", text |-> <<>>, n |-> 0]
\* {"data": [{"url": "<text>"}, ...]} with n elements, or {"output": [["<text>", ...], ...]}
ObjArray(field, n, text) ==
    [kind |-> "object", field |-> field, type |-> "array", text |-> text, n |-> n]

Body(prefix, phrase, json) == [prefix |-> prefix, phrase |-> phrase, json |-> json]

\* strings.HasPrefix(body, `{"reply":"<!DOCTYPE html>\`) || strings.HasPrefix(body, "<html>")
IsHTML(body) == body.prefix \in {"doctype", "<html>"}

\* strings.Contains(body, "\"Too many requests (\"")
HasRatePhrase(body) == body.phrase

\* json.Unmarshal(body, &v) into a struct whose only field read afterwards is
\* the string field `field`: an error when the body is no JSON or the field
\* has another type, the empty string when the field is missing
DecodeStringField(body, field) ==
    IF body.json.kind = "invalid" THEN [err |-> TRUE, text |-> <<>>]
    ELSE IF body.json.field # field THEN [err |-> FALSE, text |-> <<>>]
    ELSE IF body.json.type = "string" THEN [err |-> FALSE, text |-> body.json.text]
    ELSE [err |-> TRUE, text |-> <<>>]

\* json.Unmarshal into imgResp / base64Resp, then the first element if any
DecodeArrayField(body, field) ==
    IF body.json.kind = "invalid" THEN [err |-> TRUE, text |-> <<>>]
    ELSE IF body.json.field # field THEN [err |-> FALSE, text |-> <<>>]
    ELSE IF body.json.type = "array"
         THEN [err |-> FALSE, text |-> IF body.json.n > 0 THEN body.json.text ELSE <<>>]
    ELSE [err |-> TRUE, text |-> <<>>]

----------------------------------------------------------------------------
(* What is written to the client.  A frame is one JSON line; "raw" is the  *)
(* upstream body written as is; "error" is the text body of http.Error.    *)
Frame(model, isGenerateRequest, content, done, doneReason, stats) ==
    [kind |-> "frame", model |-> model,
     shape |-> IF isGenerateRequest THEN "response" ELSE "message",
     content |-> content, done |-> done, done_reason |-> doneReason,
     stats |-> stats, body |-> Body("other", FALSE, NotJSON)]
RawBody(body) ==
    [kind |-> "raw", model |-> <<>>, shape |-> "", content |-> <<>>, done |-> FALSE,
     done_reason |-> "", stats |-> FALSE, body |-> body]
ErrorBody(text) ==
    [kind |-> "error", model |-> <<>>, shape |-> "", content |-> <<text>>, done |-> FALSE,
     done_reason |-> "", stats |-> FALSE, body |-> Body("other", FALSE, NotJSON)]

----------------------------------------------------------------------------
(* Startup: main reads the two console prompts and sets the toggles.       *)

\* what the streaming prompt yields: a line, or nothing within 10 s
StreamAnswers == {"on", "off", "ask", "<timeout>"}
\* what the truncation prompt yields: a line, or nothing within 3 s
DementiaAnswers == {"p", "n", "<timeout>"}

NoRequest ==
    [Method |-> "", Path |-> "", Decodable |-> FALSE, Model |-> <<>>,
     Messages |-> <<>>, Prompt |-> Content(0, FALSE),
     SystemType |-> "absent", System |-> Content(0, FALSE),
     Stream |-> FALSE, Options |-> "absent"]
NoReq == [Model |-> <<>>, Messages |-> <<>>, Stream |-> FALSE, Options |-> "absent"]
NoPayload ==
    [format |-> "", model |-> <<>>, messages |-> <<>>, prompt |-> Content(0, FALSE),
     temperature |-> ""]
NoRoute ==
    [endpoint |-> "", reqBody |-> NoPayload, isChatStream |-> FALSE, isV2 |-> FALSE]
NoResp == [StatusCode |-> 0, body |-> Body("other", FALSE, NotJSON)]

HandlerIdle ==
    /\ httpReq = NoRequest
    /\ req = NoReq
    /\ route = NoRoute
    /\ posts = <<>>
    /\ resp = NoResp
    /\ reply = <<>>
    /\ i = 0
    /\ status = 0
    /\ written = <<>>
    /\ conn = "open"
    /\ lost = <<>>

\* a handler goroutine of the server that holds no request
IdleHandler ==
    [pc |-> "serving", httpReq |-> NoRequest, req |-> NoReq, route |-> NoRoute,
     posts |-> <<>>, resp |-> NoResp, reply |-> <<>>, i |-> 0, status |-> 0,
     written |-> <<>>, conn |-> "open", lost |-> <<>>]

\* before main has run: nothing typed, no goroutine started
BackgroundIdle ==
    /\ typed = [stream |-> "", dementia |-> ""]
    /\ streamReader = "unstarted"
    /\ input = ""
    /\ warmed = FALSE

\* the older revision's emitter is not running
WordIdle ==
    /\ wReply = <<>>
    /\ wWords = <<>>
    /\ wI = 0
    /\ wWritten = <<>>
    /\ wpc = "idle"

TruncIdle ==
    /\ tMessages = <<>>
    /\ tMaxLength = 0
    /\ tResult = <<>>
    /\ tAgain = <<>>
    /\ tpc = "idle"

Init ==
    /\ pc = "main"
    /\ streamOverride = "nil"
    /\ dementiaOverride = "nil"
    /\ HandlerIdle
    /\ TruncIdle
    /\ WordIdle
    /\ BackgroundIdle
    /\ parked = IdleHandler
    /\ served = <<>>

\* who reads a line entered at the truncation prompt while the goroutine of
\* the streaming prompt is still blocked in fmt.Scanln on the same os.Stdin:
\* that goroutine takes all of it, or its first byte only, or none of it
StdinTakers == {"stream", "both", "dementia"}

\* what the truncation prompt's select receives: the line entered, nothing
\* within 3 s when the other goroutine consumed the line, the empty rest of a
\* one-character line when the other goroutine consumed its first byte
DementiaLine(pending, dIn, taker) ==
    IF ~pending \/ dIn = "<timeout>" THEN dIn
    ELSE IF taker = "dementia" THEN dIn
    ELSE IF taker = "stream" THEN "<timeout>"
    ELSE ""

\* main: the select on the streaming prompt, then the select on the
\* truncation prompt (dementiaOverride is nil at that point), then the server
\* starts
Main(streamAnswers, dementiaAnswers) ==
    /\ pc = "main"
    /\ \E sIn \in streamAnswers, dIn \in dementiaAnswers, taker \in StdinTakers :
         LET pending == sIn = "<timeout>"
             got == DementiaLine(pending, dIn, taker)
         IN
         /\ (~pending \/ dIn = "<timeout>") => taker = "dementia"
         /\ streamOverride' = IF sIn = "on" THEN "true"
                              ELSE IF sIn = "off" THEN "false"
                              ELSE "nil"
         /\ dementiaOverride' = IF dementiaOverride # "nil" THEN dementiaOverride
                                ELSE IF got = "p" THEN "true"
                                ELSE "false"
         /\ typed' = [stream |-> sIn, dementia |-> dIn]
         /\ streamReader' = IF pending /\ (dIn = "<timeout>" \/ taker # "stream")
                            THEN "blocked" ELSE "returned"
         /\ input' = IF ~pending THEN sIn
                     ELSE IF dIn # "<timeout>" /\ taker = "stream" THEN dIn
                     ELSE ""
    /\ pc' = "serving"
    /\ UNCHANGED <<truncVars, wordVars, warmed, served, parked, conn, httpReq, req, route, posts, resp, reply, i, status, written, lost>>

----------------------------------------------------------------------------
(* hChat, from the method checks to the normalized request.                *)

isGenerateRequest == httpReq.Path = "/api/generate"

\* an inbound request reaches hChat
Receive(requests) ==
    /\ pc = "serving"
    /\ httpReq' \in requests
    /\ pc' = "hChat"
    /\ UNCHANGED <<truncVars, wordVars, background, served, parked, conn, toggles, req, route, posts, resp, reply, i, status, written, lost>>

\* w.Write(...): the bytes reach the client while its connection is open;
\* afterwards the call returns an error, which no caller in hChat looks at
Write(ws) ==
    IF conn = "open"
    THEN written' = written \o ws /\ lost' = lost
    ELSE written' = written /\ lost' = lost \o ws

\* w.WriteHeader(code) and the body, then return
Respond(code, ws) ==
    /\ status' = code
    /\ Write(ws)
    /\ pc' = "done"

\* r.Method == OPTIONS: 200 and no body
MethodOptions ==
    /\ pc = "hChat"
    /\ httpReq.Method = "OPTIONS"
    /\ Respond(StatusOK, <<>>)
    /\ UNCHANGED <<truncVars, wordVars, background, served, parked, conn, toggles, httpReq, req, route, posts, resp, reply, i>>

\* r.Method != POST: 405
MethodNotAllowed ==
    /\ pc = "hChat"
    /\ httpReq.Method \notin {"OPTIONS", "POST"}
    /\ Respond(StatusMethodNotAllowed, <<ErrorBody("Method not allowed")>>)
    /\ UNCHANGED <<truncVars, wordVars, background, served, parked, conn, toggles, httpReq, req, route, posts, resp, reply, i>>

\* mutant: /api/generate decodes into a map first, as /api/chat does
Decodes_MapFirst(h) == h.Decodable

\* the two decoders: /api/generate decodes into a struct whose System field
\* is a string, so a "system" of another JSON type is an error there;
\* /api/chat decodes into a map first and into ollamaReq, which has no such
\* field, afterwards
Decodes(h) ==
    /\ h.Decodable
    /\ (h.Path = "/api/generate" => h.SystemType \in {"absent", "string"})

\* the body does not decode: 400
InvalidJSON ==
    /\ pc = "hChat"
    /\ httpReq.Method = "POST"
    /\ ~Decodes(httpReq)
    /\ Respond(StatusBadRequest, <<ErrorBody("invalid json")>>)
    /\ UNCHANGED <<truncVars, wordVars, background, served, parked, conn, toggles, httpReq, req, route, posts, resp, reply, i>>

\* mutant: the prompt comes first and the system message after it
GenerateMessages_PromptFirst(g) ==
    <<Msg("user", g.Prompt)>>
        \o (IF g.SystemType = "string" /\ g.System.len > 0
            THEN <<Msg("system", g.System)>> ELSE <<>>)

\* /api/generate: if generateReq.System != "" a system message, then the
\* prompt as a user message (generateReq.System is "" when the field is absent)
GenerateMessages(g) ==
    (IF g.SystemType = "string" /\ g.System.len > 0
     THEN <<Msg("system", g.System)>> ELSE <<>>)
        \o <<Msg("user", g.Prompt)>>

\* mutant: the "system" string replaces the system messages of the list
ChatMessages_Replace(c) ==
    IF c.SystemType = "string" /\ c.System.len > 0
    THEN <<Msg("system", c.System)>> \o SelectSeq(c.Messages, NotSystem)
    ELSE c.Messages

\* /api/chat: if sysStr, ok := sys.(string); ok && sysStr != "" the string is
\* prepended as a system message
ChatMessages(c) ==
    IF c.SystemType = "string" /\ c.System.len > 0
    THEN <<Msg("system", c.System)>> \o c.Messages
    ELSE c.Messages

Normalize ==
    /\ pc = "hChat"
    /\ httpReq.Method = "POST"
    /\ Decodes(httpReq)
    /\ req' = [Model |-> httpReq.Model,
               Messages |-> IF isGenerateRequest THEN GenerateMessages(httpReq)
                            ELSE ChatMessages(httpReq),
               Stream |-> httpReq.Stream,
               Options |-> httpReq.Options]
    /\ pc' = "route"
    /\ UNCHANGED <<truncVars, wordVars, background, served, parked, conn, toggles, httpReq, route, posts, resp, reply, i, status, written, lost>>

----------------------------------------------------------------------------
(* hChat, switch baseModel: the guards and the upstream payload.           *)

\* strings.Contains(m.Content, "### Task:")
HasMarker(c) == c.marker

\* mutant: the loop looks at the most recent message only
SpamInAny_LastOnly(messages) ==
    Len(messages) > 0 /\ HasMarker(messages[Len(messages)].Content)

\* for _, m := range req.Messages { if strings.Contains(...) }
SpamInAny(messages) == \E k \in 1..Len(messages) : HasMarker(messages[k].Content)

\* mutant: the prompt is the first message instead of the most recent one
LastContent_First(messages) ==
    IF Len(messages) > 0 THEN messages[1].Content ELSE Content(0, FALSE)

\* prompt := "" ; if len(req.Messages) > 0 { prompt = last content }
LastContent(messages) ==
    IF Len(messages) > 0 THEN messages[Len(messages)].Content ELSE Content(0, FALSE)

\* dementiaOverride != nil && *dementiaOverride
DementiaOn == dementiaOverride # "nil" /\ dementiaOverride = "true"

\* opts["temperature"].(float64), 0.7 otherwise
Temperature(options) == IF options = "temperature=0.2" THEN "0.2" ELSE "0.7"

Payload(format, model, messages, prompt, temperature) ==
    [format |-> format, model |-> model, messages |-> messages, prompt |-> prompt,
     temperature |-> temperature]

\* the contents of the messages, without roles (chatReq.Messages)
RECURSIVE Contents(_)
Contents(messages) ==
    IF messages = <<>> THEN <<>>
    ELSE <<Head(messages).Content>> \o Contents(Tail(messages))

\* a guard answers the request itself: one done frame, 200, return
Reject(content) ==
    /\ Respond(StatusOK,
               <<Frame(req.Model, isGenerateRequest, content, TRUE, "stop", FALSE)>>)
    /\ UNCHANGED <<truncVars, wordVars, background, served, parked, conn, toggles, httpReq, req, route, posts, resp, reply, i>>

\* the case ends with endpoint and reqBody set; control reaches the Post
ToPost(messages, endpoint, reqBody, isChatStream, isV2) ==
    /\ req' = [req EXCEPT !.Messages = messages]
    /\ route' = [endpoint |-> endpoint, reqBody |-> reqBody,
                 isChatStream |-> isChatStream, isV2 |-> isV2]
    /\ pc' = "post"
    /\ UNCHANGED <<truncVars, wordVars, background, served, parked, conn, toggles, httpReq, posts, resp, reply, i, status, written, lost>>

\* mutant: a request of which truncation keeps no non-system message is
\* rejected as too long
LengthGuard_RejectUnfit(messages, limit) ==
    IF TotalLength(messages) > limit
    THEN IF /\ DementiaOn
            /\ SelectSeq(circumsizeM(messages, limit), NotSystem) # <<>>
         THEN [reject |-> FALSE, messages |-> circumsizeM(messages, limit)]
         ELSE [reject |-> TRUE, messages |-> messages]
    ELSE [reject |-> FALSE, messages |-> messages]

\* mutant: the toggle is not consulted, an oversized request is always trimmed
LengthGuard_AlwaysTrim(messages, limit) ==
    IF TotalLength(messages) > limit
    THEN [reject |-> FALSE, messages |-> circumsizeM(messages, limit)]
    ELSE [reject |-> FALSE, messages |-> messages]

\* if totalLength > limit { if dementiaOverride != nil && *dementiaOverride
\* { req.Messages = circumsizeM(req.Messages, limit) } else { reject } }
LengthGuard(messages, limit) ==
    IF TotalLength(messages) > limit
    THEN IF DementiaOn
         THEN [reject |-> FALSE, messages |-> circumsizeM(messages, limit)]
         ELSE [reject |-> TRUE, messages |-> messages]
    ELSE [reject |-> FALSE, messages |-> messages]

\* mutant: the length guard runs first and the spam guard sees the messages
\* it left
CaseV2_LengthFirst ==
    /\ pc = "route"
    /\ RouteOf(req.Model) = "v2"
    /\ LET guard == LengthGuard(req.Messages, LimitV2) IN
       \/ /\ guard.reject
          /\ Reject(TooLong8000)
       \/ /\ ~guard.reject
          /\ SpamInAny(guard.messages)
          /\ Reject(BlockedChatRoute(isGenerateRequest))
       \/ /\ ~guard.reject
          /\ ~SpamInAny(guard.messages)
          /\ ToPost(guard.messages, EndpointV2,
                    Payload("v2", BaseModel(req.Model), guard.messages,
                            Content(0, FALSE), Temperature(req.Options)),
                    TRUE, TRUE)

\* case "gpt-4o", "gpt-4o-mini", "gpt-4.1-nano", "gpt-4.1-mini", "gpt-4.1"
CaseV2 ==
    /\ pc = "route"
    /\ RouteOf(req.Model) = "v2"
    /\ \/ /\ SpamInAny(req.Messages)
          /\ Reject(BlockedChatRoute(isGenerateRequest))
       \/ /\ ~SpamInAny(req.Messages)
          /\ LengthGuard(req.Messages, LimitV2).reject
          /\ Reject(TooLong8000)
       \/ /\ ~SpamInAny(req.Messages)
          /\ ~LengthGuard(req.Messages, LimitV2).reject
          /\ LET messages == LengthGuard(req.Messages, LimitV2).messages IN
             ToPost(messages, EndpointV2,
                    Payload("v2", BaseModel(req.Model), messages, Content(0, FALSE),
                            Temperature(req.Options)),
                    TRUE, TRUE)

\* the image and audio cases: the guards look at the last message only
CaseMedia(name, endpoint, limit, tooLongText) ==
    /\ pc = "route"
    /\ RouteOf(req.Model) = name
    /\ LET prompt == LastContent(req.Messages) IN
       \/ /\ HasMarker(prompt)
          /\ Reject(BlockedMediaRoute(isGenerateRequest))
       \/ /\ ~HasMarker(prompt)
          /\ prompt.len > limit
          /\ Reject(tooLongText)
       \/ /\ ~HasMarker(prompt)
          /\ prompt.len <= limit
          /\ ToPost(req.Messages, endpoint,
                    Payload(name,
                            IF name = "dall-e-3" THEN BaseModel(req.Model) ELSE <<>>,
                            <<>>, prompt, ""),
                    FALSE, FALSE)

\* case "dall-e-3"
CaseDallE3 == CaseMedia("dall-e-3", EndpointV3, LimitImage, TooLong1000)
\* case "base64"
CaseBase64 == CaseMedia("base64", EndpointV4, LimitImage, TooLong1000)
\* case "tts"
CaseTTS == CaseMedia("tts", EndpointV5, LimitTTS, TooLong500)

\* default
CaseDefault ==
    /\ pc = "route"
    /\ RouteOf(req.Model) = "default"
    /\ \/ /\ SpamInAny(req.Messages)
          /\ Reject(BlockedDefaultRoute)
       \/ /\ ~SpamInAny(req.Messages)
          /\ LengthGuard(req.Messages, LimitDefault).reject
          /\ Reject(TooLong2000)
       \/ /\ ~SpamInAny(req.Messages)
          /\ ~LengthGuard(req.Messages, LimitDefault).reject
          /\ LET messages == LengthGuard(req.Messages, LimitDefault).messages IN
             ToPost(messages, EndpointV1,
                    Payload("v1", <<>>, Contents(messages), Content(0, FALSE), ""),
                    TRUE, FALSE)

----------------------------------------------------------------------------
(* hChat, the upstream call and the classification of what it returned.    *)

\* what sharedHTTPClient.Post and io.ReadAll can yield
PostFails == [err |-> "post", StatusCode |-> 0, body |-> Body("other", FALSE, NotJSON)]
ReadFails(code) == [err |-> "read", StatusCode |-> code, body |-> Body("other", FALSE, NotJSON)]
Returns(code, body) == [err |-> "", StatusCode |-> code, body |-> body]

\* mutant: a call that fails in transport is made again
Post_Retry(outcomes) ==
    /\ pc = "post"
    /\ posts' = Append(posts, [endpoint |-> route.endpoint, body |-> route.reqBody])
    /\ \E o \in outcomes :
         \/ /\ o.err = "post"
            /\ UNCHANGED <<pc, resp, status, written, lost>>
         \/ /\ o.err = "read"
            /\ Respond(StatusInternalServerError, <<ErrorBody("[ERROR] reading response...")>>)
            /\ UNCHANGED resp
         \/ /\ o.err = ""
            /\ resp' = [StatusCode |-> o.StatusCode, body |-> o.body]
            /\ pc' = "classify"
            /\ UNCHANGED <<status, written, lost>>
    /\ UNCHANGED <<truncVars, wordVars, background, served, parked, conn, toggles, httpReq, req, route, reply, i>>

\* resp, err := sharedHTTPClient.Post(...); body, err := io.ReadAll(resp.Body)
Post(outcomes) ==
    /\ pc = "post"
    /\ posts' = Append(posts, [endpoint |-> route.endpoint, body |-> route.reqBody])
    /\ \E o \in outcomes :
         \/ /\ o.err = "post"
            /\ Respond(StatusInternalServerError, <<ErrorBody("[ERROR] forwarding request...")>>)
            /\ UNCHANGED resp
         \/ /\ o.err = "read"
            /\ Respond(StatusInternalServerError, <<ErrorBody("[ERROR] reading response...")>>)
            /\ UNCHANGED resp
         \/ /\ o.err = ""
            /\ resp' = [StatusCode |-> o.StatusCode, body |-> o.body]
            /\ pc' = "classify"
            /\ UNCHANGED <<status, written, lost>>
    /\ UNCHANGED <<truncVars, wordVars, background, served, parked, conn, toggles, httpReq, req, route, reply, i>>

\* mutant: the rate-limit test comes before the HTML test
Classification_RateFirst(response) ==
    IF response.StatusCode = StatusTooManyRequests \/ HasRatePhrase(response.body)
    THEN "rate-limited"
    ELSE IF IsHTML(response.body) THEN "blocked"
    ELSE "decode"

\* mutant: only the phrase in the body is tested, not the status
Classification_PhraseOnly(response) ==
    IF IsHTML(response.body) THEN "blocked"
    ELSE IF HasRatePhrase(response.body) THEN "rate-limited"
    ELSE "decode"

\* mutant: an upstream server error is handled like status 429
Classification_ServerError(response) ==
    IF IsHTML(response.body) THEN "blocked"
    ELSE IF \/ response.StatusCode = StatusTooManyRequests
            \/ response.StatusCode = StatusInternalServerError
            \/ HasRatePhrase(response.body)
    THEN "rate-limited"
    ELSE "decode"

\* the two checks on status and body, in the order of the source
Classification(response) ==
    IF IsHTML(response.body) THEN "blocked"
    ELSE IF response.StatusCode = StatusTooManyRequests \/ HasRatePhrase(response.body)
    THEN "rate-limited"
    ELSE "decode"

\* mutant: the advisory is sent with the upstream's own status
AdvisoryStatus_Upstream(response) == response.StatusCode

\* w.WriteHeader(http.StatusOK) of the two advisory replies
AdvisoryStatus(response) == StatusOK

\* HTML body: the upstream-blocked advisory
HTMLDetected ==
    /\ pc = "classify"
    /\ Classification(resp) = "blocked"
    /\ Respond(AdvisoryStatus(resp),
               <<Frame(req.Model, isGenerateRequest, UpstreamBlocked, TRUE, "stop", FALSE)>>)
    /\ UNCHANGED <<truncVars, wordVars, background, served, parked, conn, toggles, httpReq, req, route, posts, resp, reply, i>>

\* status 429 or the phrase: the rate-limit advisory
TooManyRequests ==
    /\ pc = "classify"
    /\ Classification(resp) = "rate-limited"
    /\ Respond(AdvisoryStatus(resp),
               <<Frame(req.Model, isGenerateRequest, RateLimited, TRUE, "stop", FALSE)>>)
    /\ UNCHANGED <<truncVars, wordVars, background, served, parked, conn, toggles, httpReq, req, route, posts, resp, reply, i>>

\* the reply field of the chat route that answered
ChatReply(rt, body) ==
    DecodeStringField(body, IF rt.isV2 THEN "content" ELSE "reply")

\* mutant: with the override unset the flag of the request decides
StreamMode_RequestFlag ==
    LET stream == req.Stream IN
    IF streamOverride # "nil" THEN streamOverride = "true" ELSE stream

\* stream := req.Stream; if streamOverride != nil { stream = *streamOverride }
\* else { stream = true }: both branches assign, the flag of the request is
\* overwritten either way
StreamMode ==
    LET stream == req.Stream IN
    IF streamOverride # "nil" THEN streamOverride = "true" ELSE TRUE

\* mutant: the single frame carries the scrubbed reply
SingleShot_Scrubbed(text) == JsonString(Bytes(Scrub(text)))

\* Response: reply / Content: reply of the single frame, through json.Marshal
SingleShot(text) == JsonString(Bytes(text))

\* if isChatStream { ... }: decode, then start streaming or send the one frame
ChatDecoded ==
    /\ pc = "classify"
    /\ Classification(resp) = "decode"
    /\ route.isChatStream
    /\ LET d == ChatReply(route, resp.body) IN
       \/ /\ d.err
          /\ Respond(StatusInternalServerError,
                     <<ErrorBody(IF route.isV2 THEN "[ERROR] parsing v2 response..."
                                 ELSE "[ERROR] parsing response...")>>)
          /\ UNCHANGED <<reply, i>>
       \/ /\ ~d.err
          /\ StreamMode
          /\ status' = StatusOK
          /\ reply' = Bytes(Scrub(d.text))
          /\ i' = 0
          /\ pc' = "stream"
          /\ UNCHANGED <<written, lost>>
       \/ /\ ~d.err
          /\ ~StreamMode
          /\ Respond(StatusOK,
                     <<Frame(req.Model, isGenerateRequest, SingleShot(d.text),
                             TRUE, "stop", FALSE)>>)
          /\ UNCHANGED <<reply, i>>
    /\ UNCHANGED <<truncVars, wordVars, background, served, parked, conn, toggles, httpReq, req, route, posts, resp>>

\* for i := 0; i < len(reply); i += chunkSize { chunk := reply[i:end] ... }
StreamChunk ==
    /\ pc = "stream"
    /\ i < Len(reply)
    /\ LET end == IF i + chunkSize > Len(reply) THEN Len(reply) ELSE i + chunkSize
           chunk == SubSeq(reply, i + 1, end)
       IN Write(<<Frame(req.Model, isGenerateRequest, JsonString(chunk), FALSE, "", FALSE)>>)
    /\ i' = i + chunkSize
    /\ UNCHANGED <<truncVars, wordVars, background, served, parked, conn, toggles, pc, httpReq, req, route, posts, resp, reply, status>>

\* the final frame with the fixed timing fields
StreamFinal ==
    /\ pc = "stream"
    /\ i >= Len(reply)
    /\ Write(<<Frame(req.Model, isGenerateRequest, <<>>, TRUE, "stop", TRUE)>>)
    /\ pc' = "done"
    /\ UNCHANGED <<truncVars, wordVars, background, served, parked, conn, toggles, httpReq, req, route, posts, resp, reply, i, status>>

\* if model == "dall-e-3" ... if model == "base64" ... if model == "tts"
MediaOf(model) ==
    IF model = <<"dall-e-3">> THEN "dall-e-3"
    ELSE IF model = <<"base64">> THEN "base64"
    ELSE IF model = <<"tts">> THEN "tts"
    ELSE ""

\* imgResp.Data[0].URL, base64Resp.Output[0][0], ttsResp.URL
MediaReply(kind, body) ==
    IF kind = "dall-e-3" THEN DecodeArrayField(body, "data")
    ELSE IF kind = "base64" THEN DecodeArrayField(body, "output")
    ELSE DecodeStringField(body, "url")

MediaError(kind) ==
    IF kind = "dall-e-3" THEN "[ERROR] generating image (parsing the response)..."
    ELSE IF kind = "base64" THEN "[ERROR] generating base64..."
    ELSE "[ERROR] generating tts..."

\* the three image and audio emitters
MediaDecoded ==
    /\ pc = "classify"
    /\ Classification(resp) = "decode"
    /\ ~route.isChatStream
    /\ MediaOf(req.Model) # ""
    /\ LET kind == MediaOf(req.Model)
           d == MediaReply(kind, resp.body)
       IN
       \/ /\ d.err
          /\ Respond(StatusInternalServerError, <<ErrorBody(MediaError(kind))>>)
       \/ /\ ~d.err
          /\ Respond(StatusOK,
                     <<Frame(req.Model, isGenerateRequest, JsonString(Bytes(d.text)),
                             TRUE, "stop", FALSE)>>)
    /\ UNCHANGED <<truncVars, wordVars, background, served, parked, conn, toggles, httpReq, req, route, posts, resp, reply, i>>

\* none of the tests matched: w.Write(body)
WriteBody ==
    /\ pc = "classify"
    /\ Classification(resp) = "decode"
    /\ ~route.isChatStream
    /\ MediaOf(req.Model) = ""
    /\ Respond(StatusOK, <<RawBody(resp.body)>>)
    /\ UNCHANGED <<truncVars, wordVars, background, served, parked, conn, toggles, httpReq, req, route, posts, resp, reply, i>>

\* the handler between the arrival of a request and its return
hChat ==
    \/ MethodOptions
    \/ MethodNotAllowed
    \/ InvalidJSON
    \/ Normalize
    \/ CaseV2
    \/ CaseDallE3
    \/ CaseBase64
    \/ CaseTTS
    \/ CaseDefault
    \/ HTMLDetected
    \/ TooManyRequests
    \/ ChatDecoded
    \/ StreamChunk
    \/ StreamFinal
    \/ MediaDecoded
    \/ WriteBody

----------------------------------------------------------------------------
(* Inputs.                                                                 *)

\* bounds of the handler specifications
MaxChatMsgs == 2
MaxPad == 10
MaxTail == 2

Short == Content(3, FALSE)
Task == Content(20, TRUE)
Len600 == Content(600, FALSE)
Len1200 == Content(1200, FALSE)
Len5000 == Content(5000, FALSE)
Len9000 == Content(9000, FALSE)
LongTask == Content(5000, TRUE)
NoContent == Content(0, FALSE)

PostRequest(path, model, messages, prompt, system, stream) ==
    [Method |-> "POST", Path |-> path, Decodable |-> TRUE, Model |-> model,
     Messages |-> messages, Prompt |-> prompt,
     SystemType |-> IF system.len > 0 THEN "string" ELSE "absent", System |-> system,
     Stream |-> stream, Options |-> "absent"]
ChatRequest(model, messages, system, stream) ==
    PostRequest("/api/chat", model, messages, NoContent, system, stream)
GenerateRequest(model, prompt, system, stream) ==
    PostRequest("/api/generate", model, <<>>, prompt, system, stream)
OtherRequests ==
    {[NoRequest EXCEPT !.Method = "OPTIONS", !.Path = "/api/chat"],
     [NoRequest EXCEPT !.Method = "GET", !.Path = "/api/chat"],
     [NoRequest EXCEPT !.Method = "POST", !.Path = "/api/chat"],
     [NoRequest EXCEPT !.Method = "POST", !.Path = "/api/generate"]}

\* every route, with and without the qualifier
MediaModels ==
    {<<"dall-e-3">>, <<"dall-e-3", ":latest">>,
     <<"base64">>, <<"base64", ":latest">>,
     <<"tts">>, <<"tts", ":latest">>}
ChatModels ==
    {<<"gpt-4o">>, <<"gpt-4.1", ":latest">>, <<"gpt-3.5">>, <<"unknown-model", ":latest">>}

\* requests of the guard specification: message lists of up to MaxChatMsgs
\* messages whose lengths lie around the four limits
GuardContents == {Short, Task, LongTask, Len600, Len1200, Len5000, Len9000}
GuardMsgs == {Msg(role, c) : role \in {"system", "user"}, c \in GuardContents}
GuardLists == UNION {[1..n -> GuardMsgs] : n \in 0..MaxChatMsgs}
\* requests whose "system" field is the empty string, or is not a string
SystemRequests ==
    {[ChatRequest(model, messages, system, FALSE) EXCEPT !.SystemType = t] :
        model \in {<<"gpt-4o">>, <<"gpt-3.5">>, <<"tts">>},
        messages \in {<<>>, <<Msg("user", Short)>>,
                      <<Msg("user", Short), Msg("system", Len600)>>},
        system \in {NoContent, Short}, t \in {"string", "number"}}
    \cup {[GenerateRequest(model, Short, system, FALSE) EXCEPT !.SystemType = t] :
        model \in {<<"gpt-4o">>, <<"gpt-3.5">>, <<"tts">>},
        system \in {NoContent, Short}, t \in {"string", "number"}}
GuardRequests ==
    {ChatRequest(model, messages, system, FALSE) :
        model \in ChatModels \cup MediaModels, messages \in GuardLists,
        system \in {NoContent, Short}}
    \cup {GenerateRequest(model, prompt, system, FALSE) :
        model \in ChatModels \cup MediaModels, prompt \in GuardContents,
        system \in {NoContent, Short}}
    \cup SystemRequests
    \cup OtherRequests

Hello == <<"a", "b">>
FewOutcomes ==
    {PostFails, ReadFails(StatusOK),
     Returns(StatusOK, Body("other", FALSE, ObjString("content", Hello))),
     Returns(StatusOK, Body("other", FALSE, NotJSON)),
     Returns(StatusOK, Body("other", TRUE, ObjString("error", Hello))),
     Returns(StatusTooManyRequests, Body("other", FALSE, ObjString("content", Hello))),
     Returns(StatusOK, Body("<html>", FALSE, NotJSON))}

Next ==
    \/ Main({"off", "<timeout>"}, DementiaAnswers)
    \/ Receive(GuardRequests)
    \/ hChat
    \/ Post(FewOutcomes)

Spec == Init /\ [][Next]_vars

\* requests of the classification and emission specifications: one short
\* user message, every route
PlainRequests(models) ==
    {ChatRequest(model, <<Msg("user", Short)>>, NoContent, stream) :
        model \in models, stream \in BOOLEAN}
    \cup {GenerateRequest(model, Short, NoContent, stream) :
        model \in models, stream \in BOOLEAN}
    \cup OtherRequests

\* upstream responses of the classification specification: every status
\* class, every prefix, with and without the phrase, every document shape
Statuses == {StatusOK, StatusTooManyRequests, StatusInternalServerError}
Documents ==
    {NotJSON}
    \cup {ObjString(f, Hello) : f \in {"content", "reply", "url", "error"}}
    \cup {ObjNumber(f) : f \in {"content", "reply", "url", "data", "output"}}
    \cup {ObjArray(f, n, Hello) : f \in {"data", "output"}, n \in 0..1}
ClassifyBodies ==
    {Body("other", ph, d) : ph \in BOOLEAN, d \in Documents}
    \cup {Body("<html>", ph, NotJSON) : ph \in BOOLEAN}
    \cup {Body("doctype", ph, d) : ph \in BOOLEAN, d \in {NotJSON, ObjString("reply", Hello)}}
ClassifyOutcomes ==
    {PostFails}
    \cup {ReadFails(code) : code \in Statuses}
    \cup {Returns(code, b) : code \in Statuses, b \in ClassifyBodies}

\* names around the closed set of the switch: every v2 name with and without
\* the qualifier, names with another tag, with the qualifier twice, and names
\* that only resemble a known one
RouteModels ==
    V2Models
    \cup {n \o <<":latest">> : n \in V2Models}
    \cup {<<"gpt-4o", ":v1">>, <<"gpt-4o", ":latest", ":latest">>,
          <<"gpt-4o-2024">>, <<"GPT-4o">>, <<"dall-e-3", ":v1">>,
          <<"tts", ":latest", ":latest">>, <<"base64", ":v1", ":latest">>, <<>>}

NextClassify ==
    \/ Main(StreamAnswers, {"<timeout>"})
    \/ Receive(PlainRequests(ChatModels \cup MediaModels \cup RouteModels))
    \/ hChat
    \/ Post(ClassifyOutcomes)

SpecClassify == Init /\ [][NextClassify]_vars

\* upstream replies of the emission specification: up to MaxPad printable
\* characters followed by up to MaxTail characters of any class
Pad(n) == [k \in 1..n |-> "a"]
Tails == UNION {[1..n -> Runes] : n \in 0..MaxTail}
Replies == {Pad(n) \o t : n \in 0..MaxPad, t \in Tails}
EmitOutcomes ==
    {PostFails, ReadFails(StatusOK),
     Returns(StatusOK, Body("<html>", FALSE, NotJSON)),
     Returns(StatusTooManyRequests, Body("other", FALSE, NotJSON)),
     Returns(StatusOK, Body("other", FALSE, NotJSON))}
    \cup {Returns(StatusOK, Body("other", FALSE, ObjString(f, t))) :
            f \in {"content", "reply"}, t \in Replies}
EmitModels == {<<"gpt-4o">>, <<"unknown-model", ":latest">>, <<"dall-e-3">>, <<"tts", ":latest">>}

NextEmit ==
    \/ Main(StreamAnswers, {"<timeout>"})
    \/ Receive(PlainRequests(EmitModels))
    \/ hChat
    \/ Post(EmitOutcomes)

SpecEmit == Init /\ [][NextEmit]_vars

----------------------------------------------------------------------------
(* The server answering one request after another: when hChat has returned, *)
(* the request and its response are kept in served and the next request is  *)
(* taken.                                                                   *)

\* hChat returned: its locals are gone, the server awaits the next request
Return ==
    /\ pc = "done"
    /\ served' = <<[httpReq |-> httpReq, route |-> route, posts |-> posts,
                    resp |-> resp, status |-> status, written |-> written]>>
    /\ pc' = "serving"
    /\ httpReq' = NoRequest
    /\ req' = NoReq
    /\ route' = NoRoute
    /\ posts' = <<>>
    /\ resp' = NoResp
    /\ reply' = <<>>
    /\ i' = 0
    /\ status' = 0
    /\ written' = <<>>
    /\ conn' = "open"
    /\ lost' = <<>>
    /\ UNCHANGED <<truncVars, wordVars, background, toggles, parked>>

\* a reply of two chunks with a newline in it
TwoChunks == Pad(9) \o <<"LF", "b", "a">>
ServeModels ==
    {<<"gpt-4o">>, <<"unknown-model", ":latest">>, <<"tts">>, <<"tts", ":latest">>}
ServeOutcomes ==
    {PostFails, ReadFails(StatusOK),
     Returns(StatusOK, Body("<html>", FALSE, NotJSON)),
     Returns(StatusTooManyRequests, Body("other", FALSE, NotJSON)),
     Returns(StatusOK, Body("other", FALSE, NotJSON)),
     Returns(StatusOK, Body("other", FALSE, ObjString("url", Hello)))}
    \cup {Returns(StatusOK, Body("other", FALSE, ObjString(f, TwoChunks))) :
            f \in {"content", "reply"}}

\* requests that meet the guards, some with a temperature option, some with
\* the same canonical messages on the other path or in the "system" field
RouteRequests ==
    {[ChatRequest(model, messages, system, FALSE) EXCEPT !.Options = o] :
        model \in {<<"gpt-4o">>, <<"tts">>},
        messages \in {<<Msg("user", Task)>>, <<Msg("user", Len9000)>>,
                      <<Msg("system", Short), Msg("user", Short)>>},
        system \in {NoContent}, o \in {"absent", "temperature=0.2"}}
    \cup {GenerateRequest(model, prompt, system, FALSE) :
        model \in {<<"gpt-4o">>, <<"tts">>}, prompt \in {Task, Len9000, Short},
        system \in {NoContent, Short}}

NextServe ==
    \/ Main(StreamAnswers, {"p", "<timeout>"})
    \/ Receive(PlainRequests(ServeModels) \cup RouteRequests)
    \/ hChat
    \/ Post(ServeOutcomes)
    \/ Return

SpecServe == Init /\ [][NextServe]_vars

----------------------------------------------------------------------------
(* The client going away while its request is handled.                     *)

\* the client closes its connection; hChat does not watch r.Context(), so the
\* handler notices nothing and goes on
ClientDisconnects ==
    /\ pc \in {"hChat", "route", "post", "classify", "stream"}
    /\ conn = "open"
    /\ conn' = "closed"
    /\ UNCHANGED <<truncVars, wordVars, background, served, parked, toggles, pc, httpReq, req, route, posts, resp, reply, i, status, written, lost>>

NextCancel ==
    \/ Main(StreamAnswers, {"<timeout>"})
    \/ Receive(PlainRequests(ServeModels))
    \/ hChat
    \/ Post(ServeOutcomes)
    \/ ClientDisconnects

SpecCancel == Init /\ [][NextCancel]_vars

----------------------------------------------------------------------------
(* Two requests handled at the same time: net/http runs hChat in one        *)
(* goroutine per connection.  Everything hChat assigns is a local of the    *)
(* call (w and r included); the handler variables hold the locals of the    *)
(* goroutine that takes the next step and parked those of the other one.    *)

\* the locals of the goroutine taking the next step
Running ==
    [pc |-> pc, httpReq |-> httpReq, req |-> req, route |-> route, posts |-> posts,
     resp |-> resp, reply |-> reply, i |-> i, status |-> status,
     written |-> written, conn |-> conn, lost |-> lost]

\* mutant: reply is a package-level variable that the goroutines share
Switch_SharedReply ==
    /\ pc # "main"
    /\ parked' = Running
    /\ pc' = parked.pc
    /\ httpReq' = parked.httpReq
    /\ req' = parked.req
    /\ route' = parked.route
    /\ posts' = parked.posts
    /\ resp' = parked.resp
    /\ reply' = reply
    /\ i' = parked.i
    /\ status' = parked.status
    /\ written' = parked.written
    /\ conn' = parked.conn
    /\ lost' = parked.lost
    /\ UNCHANGED <<truncVars, wordVars, background, toggles, served>>

\* the scheduler lets the other goroutine run: each keeps its own locals
Switch ==
    /\ pc # "main"
    /\ parked' = Running
    /\ pc' = parked.pc
    /\ httpReq' = parked.httpReq
    /\ req' = parked.req
    /\ route' = parked.route
    /\ posts' = parked.posts
    /\ resp' = parked.resp
    /\ reply' = parked.reply
    /\ i' = parked.i
    /\ status' = parked.status
    /\ written' = parked.written
    /\ conn' = parked.conn
    /\ lost' = parked.lost
    /\ UNCHANGED <<truncVars, wordVars, background, toggles, served>>

\* one chat request per route family and per path, one audio request with
\* and one without the suffix
ConcurrentRequests ==
    {ChatRequest(<<"gpt-4o">>, <<Msg("user", Short)>>, NoContent, FALSE),
     GenerateRequest(<<"unknown-model", ":latest">>, Short, NoContent, FALSE),
     ChatRequest(<<"tts">>, <<Msg("user", Short)>>, NoContent, FALSE),
     ChatRequest(<<"tts", ":latest">>, <<Msg("user", Short)>>, NoContent, FALSE),
     ChatRequest(<<"dall-e-3">>, <<Msg("user", Task)>>, NoContent, FALSE),
     ChatRequest(<<"base64">>, <<Msg("user", Len1200)>>, NoContent, FALSE)}
    \cup OtherRequests

\* two different replies, one of two chunks and one of a single chunk
ConcurrentOutcomes ==
    {PostFails,
     Returns(StatusOK, Body("<html>", FALSE, NotJSON)),
     Returns(StatusTooManyRequests, Body("other", FALSE, NotJSON))}
    \cup {Returns(StatusOK, Body("other", FALSE, ObjString(f, t))) :
            f \in {"content", "reply", "url"}, t \in {TwoChunks, Hello}}

NextConcurrent ==
    \/ Main({"on", "off"}, {"<timeout>"})
    \/ Receive(ConcurrentRequests)
    \/ hChat
    \/ Post(ConcurrentOutcomes)
    \/ Switch

SpecConcurrent == Init /\ [][NextConcurrent]_vars

----------------------------------------------------------------------------
(* The goroutines main leaves behind when the server starts: the reader of  *)
(* the streaming prompt, if that prompt timed out, and preWarmConnection.   *)

\* the lines a console user may still enter once the server runs
LateLines == {"on", "off", "p"}

\* mutant: the goroutine applies the line it scanned, as main's select does
LateLine_SetsOverride ==
    /\ pc # "main"
    /\ streamReader = "blocked"
    /\ \E line \in LateLines :
         /\ input' = line
         /\ streamOverride' = IF line = "on" THEN "true"
                              ELSE IF line = "off" THEN "false"
                              ELSE "nil"
    /\ streamReader' = "returned"
    /\ UNCHANGED <<truncVars, wordVars, typed, warmed, dementiaOverride, handlerVars, parked, served>>

\* go func() { fmt.Scanln(&input); inputCh <- input }() after the 10 s have
\* passed: a line entered later is scanned into input and sent to the
\* buffered channel, which nobody receives from any more
LateLine ==
    /\ pc # "main"
    /\ streamReader = "blocked"
    /\ \E line \in LateLines : input' = line
    /\ streamReader' = "returned"
    /\ UNCHANGED <<truncVars, wordVars, typed, warmed, toggles, handlerVars, parked, served>>

\* go preWarmConnection(): one POST through sharedHTTPClient, result dropped
PreWarm ==
    /\ pc # "main"
    /\ ~warmed
    /\ warmed' = TRUE
    /\ UNCHANGED <<truncVars, wordVars, typed, streamReader, input, toggles, handlerVars, parked, served>>

NextStartup ==
    \/ Main(StreamAnswers, DementiaAnswers)
    \/ Receive(ConcurrentRequests)
    \/ hChat
    \/ Post(ConcurrentOutcomes)
    \/ Return
    \/ LateLine
    \/ PreWarm

SpecStartup == Init /\ [][NextStartup]_vars

----------------------------------------------------------------------------
(* One request after another, the upstream answering with every status     *)
(* class and a few bodies.                                                  *)

\* bodies of the status specification: a reply in either field, an error
\* object without a reply field, an audio reply, no JSON, an HTML page, a
\* body with the rate-limit phrase
StatusBodies ==
    {Body("other", FALSE, d) :
        d \in {ObjString("content", Hello), ObjString("reply", Hello),
               ObjString("error", Hello), ObjString("url", Hello), NotJSON}}
    \cup {Body("<html>", FALSE, NotJSON), Body("other", TRUE, ObjString("error", Hello))}
StatusOutcomes ==
    {PostFails, ReadFails(StatusOK)}
    \cup {Returns(code, b) : code \in Statuses, b \in StatusBodies}

NextStatus ==
    \/ Main({"on", "off"}, {"<timeout>"})
    \/ Receive(ConcurrentRequests)
    \/ hChat
    \/ Post(StatusOutcomes)
    \/ Return

SpecStatus == Init /\ [][NextStatus]_vars

----------------------------------------------------------------------------
(* Specification of the truncation policy on its own: every message        *)
(* sequence up to MaxMsgs messages of length up to MaxLen, every budget up *)
(* to MaxBudget.                                                           *)
TruncMsgs == {Msg(role, Content(n, FALSE)) : role \in Roles, n \in 0..MaxLen}
TruncSeqs == UNION {[1..n -> TruncMsgs] : n \in 0..MaxMsgs}

InitTrunc ==
    /\ tMessages \in TruncSeqs
    /\ tMaxLength \in 0..MaxBudget
    /\ tResult = <<>>
    /\ tAgain = <<>>
    /\ tpc = "call"
    /\ pc = "circumsizeM"
    /\ streamOverride = "nil"
    /\ dementiaOverride = "nil"
    /\ HandlerIdle
    /\ WordIdle
    /\ BackgroundIdle
    /\ parked = IdleHandler
    /\ served = <<>>

CallCircumsizeM ==
    /\ tpc = "call"
    /\ tResult' = circumsizeM(tMessages, tMaxLength)
    /\ tpc' = "returned"
    /\ UNCHANGED <<tMessages, tMaxLength, tAgain, wordVars, toggles, background, handlerVars, parked, served>>

\* circumsizeM called on the slice it returned, with the same budget
CallAgain ==
    /\ tpc = "returned"
    /\ tAgain' = circumsizeM(tResult, tMaxLength)
    /\ tpc' = "again"
    /\ UNCHANGED <<tMessages, tMaxLength, tResult, wordVars, toggles, background, handlerVars, parked, served>>

NextTrunc == CallCircumsizeM \/ CallAgain

SpecTrunc == InitTrunc /\ [][NextTrunc]_vars

----------------------------------------------------------------------------
\* C1: the output of circumsizeM contains every system-role message of the
\* input, each exactly once and in the original relative order, whatever the
\* budget.
C1_SystemKept ==
    tpc = "returned" => SystemMessages(tResult) = SystemMessages(tMessages)

\* C1 witness: a truncating call (total over budget) on an input that has a
\* system message and lost a non-system one
C1_Witness ==
    /\ tpc = "returned"
    /\ TotalLength(tMessages) > tMaxLength
    /\ Len(SystemMessages(tMessages)) >= 2
    /\ Len(tResult) < Len(tMessages)

\* C2 (as claimed): when the input exceeds the budget and the system messages
\* alone fit in it, the whole output (system and non-system) fits the budget.
C2_TotalWithinBudget ==
    (/\ tpc = "returned"
     /\ tMessages # <<>>
     /\ TotalLength(tMessages) > tMaxLength
     /\ TotalLength(SystemMessages(tMessages)) <= tMaxLength)
        => TotalLength(tResult) <= tMaxLength

----------------------------------------------------------------------------
(* Vocabulary of the properties of the handler.                            *)

\* the canonical messages of the request, before any truncation
Normalized ==
    IF isGenerateRequest THEN GenerateMessages(httpReq) ELSE ChatMessages(httpReq)

\* the handler has left the switch on baseModel for a decoded POST request
PastSwitch ==
    /\ pc \in {"post", "classify", "stream", "done"}
    /\ httpReq.Method = "POST"
    /\ Decodes(httpReq)

OnChatRoute == RouteOf(httpReq.Model) \in {"v2", "default"}
OnMediaRoute == RouteOf(httpReq.Model) \in {"dall-e-3", "base64", "tts"}

MarkerInAny == \E k \in 1..Len(Normalized) : Normalized[k].Content.marker
MarkerInLast == Len(Normalized) > 0 /\ Normalized[Len(Normalized)].Content.marker
LastLen == IF Len(Normalized) > 0 THEN Normalized[Len(Normalized)].Content.len ELSE 0

\* the upstream call returned and its body was read
Answered == resp.StatusCode # 0
BodyIsHTML == resp.body.prefix \in {"<html>", "doctype"}

\* the response is HTTP 200 with exactly one line, a done frame with this text
OneDoneFrame(content) ==
    /\ pc = "done"
    /\ status = 200
    /\ written = <<Frame(httpReq.Model, isGenerateRequest, content, TRUE, "stop", FALSE)>>

\* the response is one done frame whose text is one of these
OneDoneFrameOf(texts) == \E t \in texts : OneDoneFrame(t)

RECURSIVE ConcatContents(_)
ConcatContents(fs) ==
    IF fs = <<>> THEN <<>> ELSE Head(fs).content \o ConcatContents(Tail(fs))

----------------------------------------------------------------------------
\* C3 (as claimed): on every route, a marker in ANY message of the request
\* gets the blocked reply and no upstream call.
C3_SpamAnyMessageEveryRoute ==
    (PastSwitch /\ MarkerInAny) => (OneDoneFrameOf(SpamTexts) /\ posts = <<>>)

\* C3 (amended): on the v2 chat and fallback routes a marker in any message,
\* and on the dall-e-3, base64 and tts routes a marker in the most recent
\* message, gets the blocked reply and no upstream call.
C3_SpamGuard ==
    (/\ PastSwitch
     /\ \/ OnChatRoute /\ MarkerInAny
        \/ OnMediaRoute /\ MarkerInLast)
        => (OneDoneFrameOf(SpamTexts) /\ posts = <<>>)

\* C3 witness: a chat-route request blocked for a marker that is not in its
\* most recent message
C3_Witness ==
    /\ PastSwitch
    /\ OnChatRoute
    /\ MarkerInAny
    /\ ~MarkerInLast
    /\ OneDoneFrameOf(SpamTexts)

\* C4 (as claimed): on the image and audio routes, named with or without
\* ":latest", a reply that passes the classification and decodes yields exactly
\* one done frame with the extracted URL or payload, never the raw body.
C4_MediaOneFrame ==
    (/\ pc = "done"
     /\ PastSwitch
     /\ OnMediaRoute
     /\ Answered
     /\ ~BodyIsHTML
     /\ resp.StatusCode # 429
     /\ ~resp.body.phrase
     /\ ~MediaReply(RouteOf(httpReq.Model), resp.body).err)
        => OneDoneFrame(MediaReply(RouteOf(httpReq.Model), resp.body).text)

\* C5: an HTML body gets the upstream-blocked advisory even with status 429 or
\* the rate-limit phrase; the rate-limit advisory is sent only for a body that
\* is not HTML; decoding is reached only when neither classification applies.
C5_Precedence ==
    (PastSwitch /\ Answered /\ pc \in {"stream", "done"}) =>
        /\ BodyIsHTML => OneDoneFrame(UpstreamBlocked)
        /\ OneDoneFrame(RateLimited) =>
              (~BodyIsHTML /\ (resp.StatusCode = 429 \/ resp.body.phrase))
        /\ (~OneDoneFrame(UpstreamBlocked) /\ ~OneDoneFrame(RateLimited)) =>
              (~BodyIsHTML /\ resp.StatusCode # 429 /\ ~resp.body.phrase)

\* C5 witness: an HTML body with status 429 and the phrase, answered with the
\* upstream-blocked advisory
C5_Witness ==
    /\ Answered
    /\ BodyIsHTML
    /\ resp.StatusCode = 429
    /\ resp.body.phrase
    /\ OneDoneFrame(UpstreamBlocked)

\* C6 (as claimed): whatever the model, the body and the streaming mode, an
\* upstream status 429 yields exactly one done frame with the rate-limit text.
C6_Status429AnyBody ==
    (pc = "done" /\ Answered /\ resp.StatusCode = 429) => OneDoneFrame(RateLimited)

\* C6 (amended): whatever the model and the streaming mode, an upstream status
\* 429 whose body was read and does not start with the HTML marker yields
\* exactly one done frame with the rate-limit text.
C6_Status429 ==
    (/\ pc \in {"stream", "done"}
     /\ Answered
     /\ resp.StatusCode = 429
     /\ ~BodyIsHTML)
        => OneDoneFrame(RateLimited)

\* C6 witness: status 429 with a body that would decode as a chat reply, on a
\* chat route with streaming forced on, answered with the one advisory frame
C6_Witness ==
    /\ Answered
    /\ resp.StatusCode = 429
    /\ ~resp.body.phrase
    /\ OnChatRoute
    /\ resp.body.json.field \in {"content", "reply"}
    /\ resp.body.json.type = "string"
    /\ streamOverride = "true"
    /\ OneDoneFrame(RateLimited)

\* the upstream reply text of a chat route, as the body carries it
ReplyText ==
    IF resp.body.json.field = (IF RouteOf(httpReq.Model) = "v2" THEN "content" ELSE "reply")
    THEN resp.body.json.text
    ELSE <<>>

\* a chat reply was decoded and delivered in streaming mode
StreamedReply ==
    /\ pc = "done"
    /\ PastSwitch
    /\ OnChatRoute
    /\ Answered
    /\ ~BodyIsHTML
    /\ resp.StatusCode # 429
    /\ ~resp.body.phrase
    /\ resp.body.json.kind = "object"
    /\ (resp.body.json.field \in {"content", "reply"} => resp.body.json.type = "string")
    /\ streamOverride # "false"

\* C7 (as claimed): for a streamed chat reply the contents of the done=false
\* frames, concatenated in order, equal the scrubbed reply, and exactly one
\* done=true frame is emitted, the last one, empty and with done_reason "stop".
C7_StreamingComplete ==
    StreamedReply =>
        LET n == Len(written) IN
        /\ n >= 1
        /\ \A k \in 1..n : written[k].kind = "frame"
        /\ \A k \in 1..(n - 1) : ~written[k].done
        /\ written[n].done
        /\ written[n].content = <<>>
        /\ written[n].done_reason = "stop"
        /\ ConcatContents(SubSeq(written, 1, n - 1))
              = SelectSeq(ReplyText, LAMBDA c : c \in Printable \cup Wide \cup {"TAB"})

\* the budget of the chat route of the request
ChatLimit == IF RouteOf(httpReq.Model) = "v2" THEN 8000 ELSE 2000
ChatTooLongText == IF RouteOf(httpReq.Model) = "v2" THEN TooLong8000 ELSE TooLong2000
ChatEndpoint == IF RouteOf(httpReq.Model) = "v2" THEN EndpointV2 ELSE EndpointV1

\* the request went (or is about to go) upstream once, to the endpoint of its
\* chat route, carrying exactly these messages, and no "too long" frame is sent
ForwardedWith(messages) ==
    /\ route.endpoint = ChatEndpoint
    /\ route.reqBody.messages =
          (IF RouteOf(httpReq.Model) = "v2" THEN messages ELSE Contents(messages))
    /\ \/ pc = "post" /\ posts = <<>>
       \/ pc # "post" /\ posts = <<[endpoint |-> ChatEndpoint, body |-> route.reqBody]>>
    /\ \A k \in 1..Len(written) : written[k].content \notin TooLongTexts

\* C8: on the two chat routes (budget 8000 on v2, 2000 on the fallback) a
\* request over the budget is truncated with that budget and forwarded iff the
\* truncation toggle is on, and otherwise gets exactly one "too long" frame
\* naming the limit and no upstream call; a request within the budget is
\* forwarded with its messages unmodified whatever the toggle.
C8_ChatLengthGuard ==
    (PastSwitch /\ OnChatRoute /\ ~MarkerInAny) =>
        IF TotalLength(Normalized) > ChatLimit
        THEN IF dementiaOverride = "true"
             THEN ForwardedWith(circumsizeM(Normalized, ChatLimit))
             ELSE OneDoneFrame(ChatTooLongText) /\ posts = <<>>
        ELSE ForwardedWith(Normalized)

\* C8 witness: with the toggle on, a v2 request over 8000 went upstream with
\* fewer messages than it had
C8_Witness ==
    /\ pc = "done"
    /\ PastSwitch
    /\ RouteOf(httpReq.Model) = "v2"
    /\ dementiaOverride = "true"
    /\ TotalLength(Normalized) > 8000
    /\ Len(posts) = 1
    /\ Len(posts[1].body.messages) < Len(Normalized)

\* the limit of the image or audio route of the request
MediaLimit == IF RouteOf(httpReq.Model) = "tts" THEN 500 ELSE 1000
MediaTooLongText == IF RouteOf(httpReq.Model) = "tts" THEN TooLong500 ELSE TooLong1000

\* C9: on the image and audio routes only the most recent message is capped
\* (1000 for dall-e-3 and base64, 500 for tts): over the limit the client gets
\* exactly one rejection frame citing the limit and no upstream call, whatever
\* the truncation toggle; earlier messages never cause a rejection.
C9_MediaLengthGuard ==
    (PastSwitch /\ OnMediaRoute /\ ~MarkerInLast) =>
        IF LastLen > MediaLimit
        THEN OneDoneFrame(MediaTooLongText) /\ posts = <<>>
        ELSE /\ route.endpoint # ""
             /\ \A k \in 1..Len(written) : written[k].content \notin TooLongTexts

\* C9 witness: with the truncation toggle on, a tts request whose last message
\* is over 500 is rejected
C9_Witness ==
    /\ PastSwitch
    /\ RouteOf(httpReq.Model) = "tts"
    /\ dementiaOverride = "true"
    /\ LastLen > 500
    /\ LastLen <= 1000
    /\ OneDoneFrame(TooLong500)

\* the four recovered outcomes, by their causes
SpamRejected == (OnChatRoute /\ MarkerInAny) \/ (OnMediaRoute /\ MarkerInLast)
LengthRejected ==
    /\ ~SpamRejected
    /\ \/ OnChatRoute /\ TotalLength(Normalized) > ChatLimit /\ dementiaOverride # "true"
       \/ OnMediaRoute /\ LastLen > MediaLimit
UpstreamBlockedCase == Answered /\ BodyIsHTML
RateLimitedCase == Answered /\ ~BodyIsHTML /\ (resp.StatusCode = 429 \/ resp.body.phrase)

\* HTTP 200 and exactly one line, a done frame with a non-empty text
OneAdvisory ==
    /\ status = 200
    /\ Len(written) = 1
    /\ written[1].kind = "frame"
    /\ written[1].done
    /\ written[1].content # <<>>

\* C10: every spam-guard rejection, length-guard rejection, upstream-blocked
\* and rate-limited classification reaches the client as HTTP 200 with exactly
\* one done frame with a non-empty advisory text.
C10_RecoveredAs200 ==
    /\ (PastSwitch /\ (SpamRejected \/ LengthRejected))
          => (pc = "done" /\ OneAdvisory)
    /\ (PastSwitch /\ (UpstreamBlockedCase \/ RateLimitedCase))
          => (pc = "classify" \/ (pc = "done" /\ OneAdvisory))

\* C10 witness: an upstream 429 delivered as 200 with the advisory frame
C10_Witness ==
    /\ pc = "done"
    /\ PastSwitch
    /\ RateLimitedCase
    /\ resp.StatusCode = 429
    /\ OneAdvisory

----------------------------------------------------------------------------
\* C15: truncation is idempotent: circumsizeM applied with the same budget to
\* the sequence it returned gives that sequence again, element for element.
C15_Idempotent ==
    tpc = "again" => tAgain = tResult

\* C15 witness: the first call dropped a message and its result is still over
\* the budget (the pinned system messages), so the second call truncates too
C15_Witness ==
    /\ tpc = "again"
    /\ Len(tResult) < Len(tMessages)
    /\ TotalLength(tResult) > tMaxLength
    /\ Len(tResult) > Len(SystemMessages(tResult))
    /\ tAgain = tResult

\* C16: a sequence whose total content length is within the budget, and the
\* empty sequence, is returned unchanged: same messages, same order, system
\* messages not moved to the front.
C16_UnchangedWithinBudget ==
    (tpc = "returned" /\ TotalLength(tMessages) <= tMaxLength)
        => tResult = tMessages

\* C16 witness: a sequence within the budget whose system message is not at
\* the front comes back as it was
C16_Witness ==
    /\ tpc = "returned"
    /\ TotalLength(tMessages) <= tMaxLength
    /\ Len(tMessages) >= 2
    /\ tMessages[1].Role # "system"
    /\ tMessages[Len(tMessages)].Role = "system"
    /\ tResult = tMessages

----------------------------------------------------------------------------
\* the request was decoded and normalized, the switch on baseModel is next
JustNormalized == pc = "route"

\* the "system" field of the body is a string and that string is not empty
SystemGiven == httpReq.SystemType = "string" /\ httpReq.System.len > 0

\* C13: on /api/chat, a non-empty string "system" field S gives one new system
\* message with content S followed by the request's messages in their order,
\* the system messages of the list included; when the field is absent, empty
\* or not a string the canonical sequence is the request's message list.
C13_ChatNormalization ==
    (JustNormalized /\ httpReq.Path = "/api/chat") =>
        IF SystemGiven
        THEN /\ Len(req.Messages) = Len(httpReq.Messages) + 1
             /\ req.Messages[1] = [Role |-> "system", Content |-> httpReq.System]
             /\ Tail(req.Messages) = httpReq.Messages
        ELSE req.Messages = httpReq.Messages

\* C13 witness: a "system" string in front of a list that has a system message
\* of its own
C13_Witness ==
    /\ JustNormalized
    /\ httpReq.Path = "/api/chat"
    /\ SystemGiven
    /\ \E k \in 1..Len(httpReq.Messages) : httpReq.Messages[k].Role = "system"
    /\ Len(SystemMessages(req.Messages)) >= 2

\* C14: on /api/generate the canonical sequence ends with exactly one user
\* message, whose content is the prompt, preceded by exactly one system message
\* when the "system" string is non-empty and by nothing otherwise; its length
\* is 1 or 2.
C14_GenerateNormalization ==
    (JustNormalized /\ httpReq.Path = "/api/generate") =>
        LET n == Len(req.Messages) IN
        /\ n \in {1, 2}
        /\ req.Messages[n] = [Role |-> "user", Content |-> httpReq.Prompt]
        /\ Len(SelectSeq(req.Messages, LAMBDA m : m.Role = "user")) = 1
        /\ IF SystemGiven
           THEN n = 2 /\ req.Messages[1] = [Role |-> "system", Content |-> httpReq.System]
           ELSE n = 1

\* C14 witness: a generate request with a system string, normalized to two
\* messages
C14_Witness ==
    /\ JustNormalized
    /\ httpReq.Path = "/api/generate"
    /\ SystemGiven
    /\ Len(req.Messages) = 2

----------------------------------------------------------------------------
\* the names of the claim, as the client writes them
NamesOf(bases) == bases \cup {n \o <<":latest">> : n \in bases}
V2Names ==
    NamesOf({<<"gpt-4o">>, <<"gpt-4o-mini">>, <<"gpt-4.1-nano">>, <<"gpt-4.1-mini">>,
             <<"gpt-4.1">>})

\* the one upstream call of the request went to this endpoint with a payload
\* of this format
CalledAt(endpoint, format) ==
    /\ Len(posts) = 1
    /\ posts[1].endpoint = endpoint
    /\ posts[1].body.format = format

\* C12: the route is chosen by exact match on the model name with one trailing
\* ":latest" removed: the five gpt names select the v2 chat route, dall-e-3 the
\* v3 image route, base64 the v4 image route, tts the v5 audio route, and every
\* other name the legacy v1 chat route.
C12_Routing ==
    (PastSwitch /\ posts # <<>>) =>
        LET model == httpReq.Model IN
        IF model \in V2Names THEN CalledAt(EndpointV2, "v2") /\ route.isChatStream
        ELSE IF model \in NamesOf({<<"dall-e-3">>})
             THEN CalledAt(EndpointV3, "dall-e-3") /\ ~route.isChatStream
        ELSE IF model \in NamesOf({<<"base64">>})
             THEN CalledAt(EndpointV4, "base64") /\ ~route.isChatStream
        ELSE IF model \in NamesOf({<<"tts">>})
             THEN CalledAt(EndpointV5, "tts") /\ ~route.isChatStream
        ELSE CalledAt(EndpointV1, "v1") /\ route.isChatStream

\* C12 witness: a known name carrying the qualifier twice went to the legacy
\* chat route
C12_Witness ==
    /\ PastSwitch
    /\ httpReq.Model = <<"gpt-4o", ":latest", ":latest">>
    /\ CalledAt(EndpointV1, "v1")

----------------------------------------------------------------------------
\* a model name with the qualifier: itself when it ends with ":latest", with
\* ":latest" appended when it does not
Qualified(model) ==
    IF Len(model) > 0 /\ model[Len(model)] = ":latest" THEN model
    ELSE model \o <<":latest">>

\* C19 (as claimed): the model name of every outbound frame carries the
\* ":latest" qualifier, appended when the request names the model without it.
C19_ModelEchoQualified ==
    Len(httpReq.Model) > 0 =>
        \A k \in 1..Len(written) :
            written[k].kind = "frame" => written[k].model = Qualified(httpReq.Model)

----------------------------------------------------------------------------
\* the upstream body was read and is neither blocked nor rate-limited
Unclassified ==
    /\ Answered
    /\ ~BodyIsHTML
    /\ resp.StatusCode # 429
    /\ ~resp.body.phrase

\* the body does not decode into the shape of the route of the request
Undecodable ==
    IF OnChatRoute
    THEN DecodeStringField(resp.body,
            IF RouteOf(httpReq.Model) = "v2" THEN "content" ELSE "reply").err
    ELSE MediaReply(RouteOf(httpReq.Model), resp.body).err

\* C20 (as claimed): on all five routes, for names with or without ":latest",
\* an upstream body that is neither blocked nor rate-limited and does not
\* decode into the shape of the route gets HTTP 500 and no protocol frame.
C20_DecodeFailure500 ==
    (pc = "done" /\ PastSwitch /\ Unclassified /\ Undecodable) =>
        /\ status = 500
        /\ \A k \in 1..Len(written) : written[k].kind = "error"

----------------------------------------------------------------------------
\* the text the client reads from the frames, in order
FrameText == ConcatContents(SelectSeq(written, LAMBDA x : x.kind = "frame"))

\* the characters of a text that the scrub is to keep
Kept(text) == SelectSeq(text, LAMBDA c : c \in Printable \cup Wide \cup {"TAB"})

\* a occurs in b in order, not necessarily contiguously
RECURSIVE IsSubsequence(_, _)
IsSubsequence(a, b) ==
    IF a = <<>> THEN TRUE
    ELSE IF b = <<>> THEN FALSE
    ELSE IF Head(a) = Head(b) THEN IsSubsequence(Tail(a), Tail(b))
    ELSE IsSubsequence(a, Tail(b))

\* no U+000A and no other character of 0x00-0x1F except tab
NoControl(text) == \A k \in 1..Len(text) : text[k] \notin {"LF", "CR"}

\* C17 (as claimed): the text carried by the frames of a streamed response has
\* no U+000A and no character in 0x00-0x1F other than tab, and every character
\* of the reply in 0x20-0x7E, tab or >= 0x80 is retained in its original order.
C17_ScrubbedFrames ==
    StreamedReply =>
        /\ NoControl(FrameText)
        /\ IsSubsequence(Kept(ReplyText), FrameText)

\* a chat reply was decoded and delivered with the streaming toggle off
SingleReply ==
    /\ pc = "done"
    /\ PastSwitch
    /\ OnChatRoute
    /\ Unclassified
    /\ ~Undecodable
    /\ streamOverride = "false"

\* C18: with the streaming toggle off, a chat-route reply reaches the client as
\* exactly one frame, with done=true, whose content is the upstream reply
\* unmodified: newlines and control characters retained.
C18_SingleFrame ==
    SingleReply => OneDoneFrame(ReplyText)

\* C18 witness: a reply of more than one chunk with a newline and a control
\* character, delivered whole in one frame
C18_Witness ==
    /\ SingleReply
    /\ Len(ReplyText) > 10
    /\ \E k \in 1..Len(ReplyText) : ReplyText[k] = "LF"
    /\ \E k \in 1..Len(ReplyText) : ReplyText[k] = "CR"
    /\ OneDoneFrame(ReplyText)

----------------------------------------------------------------------------
\* a chat reply was decoded and is being, or has been, delivered
ChatReplyDecoded ==
    /\ pc \in {"stream", "done"}
    /\ PastSwitch
    /\ OnChatRoute
    /\ Unclassified
    /\ ~Undecodable

\* the reply is delivered as a stream: content frames, then the terminal frame
Streamed ==
    \/ pc = "stream"
    \/ /\ pc = "done"
       /\ written # <<>>
       /\ written[Len(written)].stats
       /\ \A k \in 1..(Len(written) - 1) : ~written[k].done

\* the reply is delivered as the one frame of the non-streaming mode
SingleFramed ==
    /\ pc = "done"
    /\ Len(written) = 1
    /\ written[1].done
    /\ ~written[1].stats

\* an answered request and the request in hand differ at most in their stream
\* flag and got the same answer from the upstream
SameButStream(s) ==
    /\ [s.httpReq EXCEPT !.Stream = httpReq.Stream] = httpReq
    /\ s.posts = posts
    /\ s.resp = resp
    /\ (posts # <<>> => Answered)

----------------------------------------------------------------------------
\* the non-system messages of a sequence, in order
NonSystem(messages) == SelectSeq(messages, LAMBDA m : m.Role # "system")

\* the last n elements of a sequence
Suffix(xs, n) == SubSeq(xs, Len(xs) - n + 1, Len(xs))

\* C27: over the budget, circumsizeM returns all system messages in their
\* original relative order followed by the longest suffix of the non-system
\* subsequence whose content lengths sum to at most the budget: the message
\* just before the suffix, if any, would overflow; every message is whole.
C27_LongestSuffix ==
    (tpc = "returned" /\ TotalLength(tMessages) > tMaxLength) =>
        \E n \in 0..Len(NonSystem(tMessages)) :
            LET rest == NonSystem(tMessages) IN
            /\ tResult = SystemMessages(tMessages) \o Suffix(rest, n)
            /\ TotalLength(Suffix(rest, n)) <= tMaxLength
            /\ n < Len(rest) => TotalLength(Suffix(rest, n + 1)) > tMaxLength

\* C27 witness: the walk stopped at a message that overflows although an
\* older, shorter message would still have fitted
C27_Witness ==
    /\ tpc = "returned"
    /\ TotalLength(tMessages) > tMaxLength
    /\ LET rest == NonSystem(tMessages)
           kept == NonSystem(tResult)
       IN /\ Len(kept) >= 1
          /\ Len(rest) >= Len(kept) + 2
          /\ TotalLength(kept) + ContentLen(rest[1]) <= tMaxLength
          /\ rest[1] \notin {kept[k] : k \in 1..Len(kept)}

----------------------------------------------------------------------------
\* the body of the POST request in hand cannot be decoded: it is no JSON
\* document of the right shape, or, on /api/generate, its "system" is no string
Malformed ==
    /\ httpReq.Method = "POST"
    /\ \/ ~httpReq.Decodable
       \/ httpReq.Path = "/api/generate" /\ httpReq.SystemType = "number"

\* C21: a request body that cannot be decoded, on /api/chat or /api/generate,
\* yields HTTP 400 with no upstream call and no protocol frame, and no
\* partially normalized request is ever routed.
C21_Malformed400 ==
    Malformed =>
        /\ pc \in {"hChat", "done"}
        /\ req = NoReq
        /\ route = NoRoute
        /\ posts = <<>>
        /\ pc = "done" =>
              /\ status = 400
              /\ \A k \in 1..Len(written) : written[k].kind = "error"

\* C21 witness: a generate request that is a JSON object but whose "system"
\* is no string was answered with 400
C21_Witness ==
    /\ pc = "done"
    /\ Malformed
    /\ httpReq.Decodable
    /\ httpReq.Path = "/api/generate"
    /\ status = 400
    /\ posts = <<>>

\* the request got the fixed reply of a spam guard or of a length guard
GuardRejected ==
    /\ pc = "done"
    /\ Len(written) = 1
    /\ written[1].content \in SpamTexts \cup TooLongTexts

\* C24: every request causes at most one upstream call whatever the outcome
\* (reply, rate limit, block, decode failure, transport failure or timeout),
\* and a request that is malformed or rejected by a guard causes none.
C24_AtMostOneCall ==
    /\ Len(posts) <= 1
    /\ (Malformed \/ GuardRejected) => posts = <<>>
    /\ pc \in {"classify", "stream"} => Len(posts) = 1

\* C24 witness: the one call failed in transport and the request ended with
\* the forwarding error, the call not repeated
C24_Witness ==
    /\ pc = "done"
    /\ Len(posts) = 1
    /\ resp = NoResp
    /\ status = 500
    /\ written = <<ErrorBody("[ERROR] forwarding request...")>>

----------------------------------------------------------------------------
\* the length of the most recent non-system message of the request
LastNonSystemLen ==
    LET rest == NonSystem(Normalized) IN
    IF rest = <<>> THEN 0 ELSE rest[Len(rest)].Content.len

\* C28: with the truncation toggle on, a chat-route request whose most recent
\* non-system message alone exceeds the budget of the route is not rejected:
\* it goes upstream with exactly its system messages and no other message, an
\* empty list when it has no system message.
C28_OnlySystemForwarded ==
    (/\ PastSwitch
     /\ OnChatRoute
     /\ ~MarkerInAny
     /\ dementiaOverride = "true"
     /\ LastNonSystemLen > ChatLimit)
        => ForwardedWith(SystemMessages(Normalized))

\* C28 witness: a v2 request without system message whose only message is
\* over 8000 went upstream with no message at all
C28_Witness ==
    /\ pc = "done"
    /\ PastSwitch
    /\ RouteOf(httpReq.Model) = "v2"
    /\ dementiaOverride = "true"
    /\ LastNonSystemLen > 8000
    /\ SystemMessages(Normalized) = <<>>
    /\ Len(posts) = 1
    /\ posts[1].body.messages = <<>>

\* the request exceeds the length limit of its route
OverLimit ==
    \/ OnChatRoute /\ TotalLength(Normalized) > ChatLimit
    \/ OnMediaRoute /\ LastLen > MediaLimit

\* C29 (as claimed): on every route a request that contains the marker and
\* exceeds the length limit receives the blocked reply, never the "too long"
\* reply, whatever the truncation toggle.
C29_SpamBeforeLengthEveryRoute ==
    (PastSwitch /\ MarkerInAny /\ OverLimit) =>
        (OneDoneFrameOf(SpamTexts) /\ posts = <<>>)

\* C29 (amended): a request that exceeds the length limit of its route and
\* has the marker in a message the spam guard of the route inspects (any
\* message on the chat routes, the most recent one on the image and audio
\* routes) receives the blocked reply, never the "too long" reply, also with
\* truncation on and the marker in a message truncation would have dropped.
C29_SpamBeforeLength ==
    (/\ PastSwitch
     /\ OverLimit
     /\ \/ OnChatRoute /\ MarkerInAny
        \/ OnMediaRoute /\ MarkerInLast)
        => (OneDoneFrameOf(SpamTexts) /\ posts = <<>>)

\* C29 witness: with truncation on, a v2 request over the budget whose marker
\* sits in a message that truncation drops was blocked
C29_Witness ==
    /\ PastSwitch
    /\ RouteOf(httpReq.Model) = "v2"
    /\ dementiaOverride = "true"
    /\ OverLimit
    /\ MarkerInAny
    /\ \A k \in 1..Len(circumsizeM(Normalized, 8000)) :
          ~circumsizeM(Normalized, 8000)[k].Content.marker
    /\ OneDoneFrameOf(SpamTexts)

----------------------------------------------------------------------------
\* the canonical messages of a request
MessagesOf(h) ==
    IF h.Path = "/api/generate"
    THEN (IF h.SystemType = "string" /\ h.System.len > 0
          THEN <<[Role |-> "system", Content |-> h.System]>> ELSE <<>>)
            \o <<[Role |-> "user", Content |-> h.Prompt]>>
    ELSE (IF h.SystemType = "string" /\ h.System.len > 0
          THEN <<[Role |-> "system", Content |-> h.System]>> ELSE <<>>)
            \o h.Messages

\* a POST request whose body decodes
WellFormed(h) ==
    /\ h.Method = "POST"
    /\ h.Decodable
    /\ ~(h.Path = "/api/generate" /\ h.SystemType = "number")

\* an answered request has the model name, the canonical messages and the
\* options of the request in hand
SameModelAndMessages(s) ==
    /\ WellFormed(s.httpReq)
    /\ s.httpReq.Model = httpReq.Model
    /\ MessagesOf(s.httpReq) = MessagesOf(httpReq)
    /\ s.httpReq.Options = httpReq.Options

\* C25 (as claimed): for fixed toggles and options, two requests with the
\* same model name and the same messages select the same endpoint and build
\* identical payloads, or are both rejected by a guard with the same reply
\* text, whatever was served before.
C25_RoutingDeterminism ==
    (PastSwitch /\ served # <<>> /\ SameModelAndMessages(served[1])) =>
        /\ served[1].route = route
        /\ route = NoRoute =>
              /\ Len(written) = 1
              /\ Len(served[1].written) = 1
              /\ written[1].content = served[1].written[1].content

----------------------------------------------------------------------------
\* the scrubbed reply in the units the chunk loop counts
ScrubbedUnits == Bytes(Kept(ReplyText))

\* the frames before the terminal frame
ContentFrames == SubSeq(written, 1, Len(written) - 1)

\* C26 (as claimed): in streaming mode a reply of n units yields ceil(n/10)
\* content frames; each carries the next 10 units of the scrubbed reply, the
\* last one the remaining 1 to 10; no content frame is empty.
C26_Chunking ==
    StreamedReply =>
        LET n == Len(ScrubbedUnits) IN
        /\ Len(ContentFrames) = (n + 9) \div 10
        /\ \A k \in 1..Len(ContentFrames) :
              LET last == IF 10 * k > n THEN n ELSE 10 * k IN
              /\ ContentFrames[k].content # <<>>
              /\ Bytes(ContentFrames[k].content)
                    = SubSeq(ScrubbedUnits, 10 * (k - 1) + 1, last)

----------------------------------------------------------------------------
\* the response is a sequence of frames of which exactly the last is done
EndsWithOneDoneFrame ==
    /\ status = 200
    /\ written # <<>>
    /\ \A k \in 1..Len(written) :
          /\ written[k].kind = "frame"
          /\ written[k].done <=> k = Len(written)

\* the response is one HTTP error
OneErrorResponse ==
    /\ status \in {400, 500}
    /\ Len(written) = 1
    /\ written[1].kind = "error"

\* C30 (as claimed, its terminal part): every POST request that reached
\* Terminated ended in exactly one terminal outcome, one done=true frame or one
\* HTTP error response.
C30_OneTerminalOutcome ==
    (pc = "done" /\ httpReq.Method = "POST") =>
        (EndsWithOneDoneFrame \/ OneErrorResponse)

----------------------------------------------------------------------------
\* C22 (as claimed): when a write to the client fails during a response,
\* emission aborts: the failed write is the last one the handler makes, no
\* further content frame and no terminal frame is passed to w.Write after it.
C22_AbortAfterFailedWrite == Len(lost) <= 1

----------------------------------------------------------------------------
\* the reply a handler decoded from the upstream response it read
ReplyOf(c) ==
    IF c.route.isChatStream THEN ChatReply(c.route, c.resp.body)
    ELSE MediaReply(MediaOf(c.req.Model), c.resp.body)

\* the handler read an upstream response and decoded a reply from it
DecodedReply(c) ==
    /\ c.resp.StatusCode # 0
    /\ Classification(c.resp) = "decode"
    /\ c.route.isChatStream \/ MediaOf(c.req.Model) # ""
    /\ ~ReplyOf(c).err

\* the k-th slice of 10 bytes of the scrubbed text, as a frame carries it
ChunkOf(text, k) ==
    LET r == Bytes(Scrub(text))
        last == IF 10 * k > Len(r) THEN Len(r) ELSE 10 * k
    IN  JsonString(SubSeq(r, 10 * (k - 1) + 1, last))

\* the response of handler c is made of its own request and upstream reply:
\* frames name the model of c's request, a done=true frame is the last thing
\* written and only one is, and the contents are c's own reply, whole in one
\* frame or slice by slice in order
OwnResponse(c) ==
    LET out == c.written IN
    /\ \A k \in 1..Len(out) :
          /\ out[k].kind = "frame" => out[k].model = c.httpReq.Model
          /\ out[k].kind = "raw" => out[k].body = c.resp.body
          /\ (out[k].kind = "frame" /\ out[k].done) => (k = Len(out) /\ c.pc = "done")
    /\ (c.pc = "done" /\ out # <<>> /\ out[Len(out)].kind = "frame")
          => out[Len(out)].done
    /\ (c.resp.StatusCode = 0 /\ c.pc # "done") => out = <<>>
    /\ DecodedReply(c) =>
          LET text == ReplyOf(c).text
              n == (Len(Bytes(Scrub(text))) + 9) \div 10
          IN
          \/ out = <<>>
          \/ /\ Len(out) = 1
             /\ out[1].done
             /\ ~out[1].stats
             /\ out[1].content = IF c.route.isChatStream THEN SingleShot(text)
                                 ELSE JsonString(Bytes(text))
          \/ /\ c.route.isChatStream
             /\ \A k \in 1..Len(out) :
                   IF out[k].done
                   THEN out[k].stats /\ out[k].content = <<>> /\ k = n + 1
                   ELSE k <= n /\ out[k].content = ChunkOf(text, k)

\* C23: with two requests handled concurrently, under every interleaving
\* each response consists only of frames built from its own request and
\* upstream reply, in content order and ended by its own single terminal frame.
C23_OwnFramesInOrder == OwnResponse(Running) /\ OwnResponse(parked)

\* witness: both handlers are in the middle of streaming different replies
C23_Witness ==
    /\ pc = "stream"
    /\ parked.pc = "stream"
    /\ written # <<>>
    /\ parked.written # <<>>
    /\ i < Len(reply)
    /\ reply # parked.reply

----------------------------------------------------------------------------
\* C34 (as claimed): in streaming mode no frame boundary falls inside a
\* multi-byte character: the content of every content frame is made of whole
\* characters of the scrubbed reply, none arrives as a replacement character.
C34_WholeCharacters ==
    StreamedReply =>
        \A k \in 1..Len(written) :
            \A j \in 1..Len(written[k].content) :
                /\ written[k].content[j] # RuneError
                /\ written[k].content[j] \in {ReplyText[m] : m \in 1..Len(ReplyText)}

----------------------------------------------------------------------------
\* C31: once the server accepts requests no step writes streamOverride or
\* dementiaOverride, neither a handler nor a goroutine left over from
\* startup, and dementiaOverride is set: every request sees the same values.
C31_TogglesSetOnce ==
    [][pc # "main" =>
         /\ streamOverride' = streamOverride
         /\ dementiaOverride' = dementiaOverride
         /\ dementiaOverride # "nil"
         /\ dementiaOverride' # "nil"]_vars

\* witness: a request is being answered after an earlier one was served, after
\* the streaming prompt's goroutine scanned a late line and after the
\* pre-warm call
C31_Witness ==
    /\ pc = "classify"
    /\ served # <<>>
    /\ typed = [stream |-> "<timeout>", dementia |-> "<timeout>"]
    /\ streamReader = "returned"
    /\ input = "on"
    /\ streamOverride = "nil"
    /\ warmed

\* C33 (as claimed): when the streaming prompt timed out and the line "p" is
\* entered at the truncation prompt, trimming is enabled, under every
\* interleaving of the two readers of standard input.
C33_PromptLineReceived ==
    (pc # "main" /\ typed = [stream |-> "<timeout>", dementia |-> "p"])
        => dementiaOverride = "true"

----------------------------------------------------------------------------
\* the frame shape of the endpoint the request came to
ShapeOf(path) == IF path = "/api/generate" THEN "response" ELSE "message"

\* C32 (as claimed): every reply body written, other than the text of an HTTP
\* error, is a frame in the shape of the endpoint: "response" and no "message"
\* for /api/generate, a "message" of role assistant for /api/chat.
C32_ShapeMatchesEndpoint ==
    \A k \in 1..Len(written) :
        written[k].kind # "error" =>
            /\ written[k].kind = "frame"
            /\ written[k].shape = ShapeOf(httpReq.Path)

----------------------------------------------------------------------------
\* an answered request and the request in hand are the same request and got
\* the same body from the upstream, both with a status other than 429
SameBodyNot429(s) ==
    /\ s.httpReq = httpReq
    /\ s.resp.StatusCode # 0
    /\ resp.StatusCode # 0
    /\ s.resp.body = resp.body
    /\ s.resp.StatusCode # StatusTooManyRequests
    /\ resp.StatusCode # StatusTooManyRequests

\* the upstream answered a chat route with a server error whose body is a
\* JSON object without the reply field of the route
ErrorObjectAnswer ==
    /\ pc = "done"
    /\ OnChatRoute
    /\ resp.StatusCode = StatusInternalServerError
    /\ ~BodyIsHTML
    /\ ~resp.body.phrase
    /\ resp.body.json.kind = "object"
    /\ resp.body.json.field \notin {"content", "reply"}

\* C35: the upstream status matters only through the test for 429: the same
\* request answered with the same body and two statuses other than 429 gets
\* the same client output, and an upstream error whose body is a JSON object
\* without the reply field is delivered with status 200 as a reply of empty
\* content.
C35_StatusOnly429 ==
    /\ pc = "done" =>
          \A k \in 1..Len(served) :
              SameBodyNot429(served[k]) =>
                  (served[k].written = written /\ served[k].status = status)
    /\ ErrorObjectAnswer =>
          /\ status = StatusOK
          /\ written # <<>>
          /\ \A k \in 1..Len(written) :
                written[k].kind = "frame" /\ written[k].content = <<>>
          /\ written[Len(written)].done

\* C35 witness: the error object came with status 500, and the same request
\* answered before with the same body and status 200 got the same frames
C35_Witness ==
    /\ ErrorObjectAnswer
    /\ written # <<>>
    /\ \E k \in 1..Len(served) :
          /\ SameBodyNot429(served[k])
          /\ served[k].resp.StatusCode = StatusOK
          /\ served[k].written = written

----------------------------------------------------------------------------
(* The older revision of the handler (src/unnamed/part_000): a chat reply   *)
(* is split into words by SplitW and sent in frames of 100 words.  A word   *)
(* is a sequence of characters; "SP" is the space.                          *)

wordsPerFrame == 100
MaxReplyLen == 4

\* for i, r := range s { switch r { ... } if i == len(s)-1 && current != ""
\* { result = append(result, current) } }: result, current and pendingSpace
\* after the first k characters of s; what range yields as i is the byte
\* offset of the character
RECURSIVE SplitWLoop(_, _)
SplitWLoop(s, k) ==
    IF k = 0 THEN [result |-> <<>>, current |-> <<>>, pendingSpace |-> FALSE]
    ELSE LET before == SplitWLoop(s, k - 1)
             r == s[k]
             off == Len(Bytes(SubSeq(s, 1, k - 1)))
             flushed == IF before.current # <<>>
                        THEN Append(before.result, before.current)
                        ELSE before.result
             step ==
                 IF r = "SP"
                 THEN [result |-> flushed, current |-> <<>>, pendingSpace |-> TRUE]
                 ELSE IF r \in {"LF", "TAB"}
                 THEN [result |-> Append(flushed, <<r>>), current |-> <<>>,
                       pendingSpace |-> FALSE]
                 ELSE [result |-> before.result,
                       current |-> IF before.pendingSpace THEN <<"SP", r>>
                                   ELSE Append(before.current, r),
                       pendingSpace |-> FALSE]
         IN  IF off = Len(Bytes(s)) - 1 /\ step.current # <<>>
             THEN [step EXCEPT !.result = Append(step.result, step.current)]
             ELSE step

\* func SplitW(s string) []string
SplitW(s) == SplitWLoop(s, Len(s)).result

\* builder.WriteString(w) for each w of words[i:end]
RECURSIVE Join(_)
Join(ws) == IF ws = <<>> THEN <<>> ELSE Head(ws) \o Join(Tail(ws))

\* replies of the older revision: every text of up to MaxReplyLen characters
WordRunes == {"a", "U00E9", "SP", "LF", "TAB"}
WordReplies == UNION {[1..n -> WordRunes] : n \in 0..MaxReplyLen}

\* the reply was decoded from the upstream body without error
InitWord ==
    /\ wReply \in WordReplies
    /\ wWords = <<>>
    /\ wI = 0
    /\ wWritten = <<>>
    /\ wpc = "decoded"
    /\ pc = "oldhChat"
    /\ streamOverride = "nil"
    /\ dementiaOverride = "nil"
    /\ HandlerIdle
    /\ TruncIdle
    /\ BackgroundIdle
    /\ parked = IdleHandler
    /\ served = <<>>

\* words := SplitW(reply)
CallSplitW ==
    /\ wpc = "decoded"
    /\ wWords' = SplitW(wReply)
    /\ wI' = 0
    /\ wpc' = "loop"
    /\ UNCHANGED <<wReply, wWritten, truncVars, toggles, background, handlerVars, parked, served>>

\* one turn of for i := 0; i < len(words); i += 100: a frame of the words
\* words[i:end], done when end == len(words)
WordFrame ==
    /\ wpc = "loop"
    /\ wI < Len(wWords)
    /\ LET end == IF wI + wordsPerFrame > Len(wWords) THEN Len(wWords)
                  ELSE wI + wordsPerFrame
           content == Join(SubSeq(wWords, wI + 1, end))
       IN wWritten' = Append(wWritten,
              [content |-> JsonString(Bytes(content)), done |-> end = Len(wWords)])
    /\ wI' = wI + wordsPerFrame
    /\ UNCHANGED <<wReply, wWords, wpc, truncVars, toggles, background, handlerVars, parked, served>>

\* the loop condition fails: return
WordReturn ==
    /\ wpc = "loop"
    /\ wI >= Len(wWords)
    /\ wpc' = "returned"
    /\ UNCHANGED <<wReply, wWords, wI, wWritten, truncVars, toggles, background, handlerVars, parked, served>>

NextWord == CallSplitW \/ WordFrame \/ WordReturn

SpecWord == InitWord /\ [][NextWord]_vars

\* C36 (as claimed): in the older revision every chat reply that decodes
\* produces at least one frame, and exactly one frame, the last, has
\* done=true, whatever the reply text, the empty one and one of spaces included.
C36_OneDoneFrameLast ==
    wpc = "returned" =>
        /\ Len(wWritten) >= 1
        /\ \A k \in 1..Len(wWritten) : wWritten[k].done <=> k = Len(wWritten)

====
